---- MODULE Spec2Model ----
(***************************************************************************)
(* Model of server.js: the per-pair Binance feeder (startFeeder,           *)
(* scheduleReconnect, socket handlers), the candle cache, the AruAlgo      *)
(* indicator engine and the websocket fan-out (subscribe, broadcastAll,    *)
(* broadcastIndicator, broadcastSignalAll) with the premium entitlement.   *)
(*                                                                         *)
(* Objects with identity (the feederMeta objects captured by the socket    *)
(* handlers and by the reconnect timers) live in the heap feederMetas; the *)
(* feeders registry maps a pair key to an index of that heap.  Handlers    *)
(* are operators from a world record to a world record, so that a handler  *)
(* which calls another (subscribe -> startFeeder -> scheduleReconnect) is  *)
(* one action.                                                             *)
(***************************************************************************)
EXTENDS Integers, Sequences, FiniteSets, TLC

\* ---------------- program constants (server.js 28-33) ----------------
MAX_CANDLES_CACHE == 2000
MAX_SEED_CANDLES == 1000
MAX_HISTORY_FETCH == 1000
FEEDER_BASE_RETRY_MS == 2000
FEEDER_MAX_RETRY_MS == 120000
MAX_ALGO_CANDLES == 5000
DEMO_PREMIUM_MINUTES == 5
DEFAULT_GRANT_MINUTES == 10
SNAPSHOT_MAX_LIMIT == 1000
SNAPSHOT_DEFAULT_LIMIT == 500
\* POST /backtest (server.js 629-642, 670-674)
BT_MAX_LIMIT == 5000
BT_DEFAULT_LIMIT == 2000
BT_DEFAULT_CAPITAL == 10000
BT_DEFAULT_SIZE_E4 == 1000
BT_MIN_SIZE_E4 == 1
BT_DEFAULT_SLIPPAGE_BPS == 5
BT_DEFAULT_COMMISSION_E4 == 5
BT_MIN_CACHED_BARS == 50
BT_MIN_BARS == 30
BT_SMA_SHORT == 10
BT_SMA_LONG == 30
BT_RSI_PERIOD == 14
BT_RSI_OVERBOUGHT == 70
BT_RSI_OVERSOLD == 30
MAX_GRANT_MINUTES == 43200

\* ---------------- bounds of the model ----------------
MaxFeederMetas == 3
MaxLiveBars == 2
MaxTicks == 1
MaxSeriesBars == 6
MaxBacktestBars == 7
MaxEquivBars == 5

\* ---------------- small input sets ----------------
NoSession == "null"
NoIndicator == "null"
ALGO_INDICATOR == "arualgo_v6_7"
Intervals == {"1m"}
Prices == {100, 110}
\* jitter Math.random()*0.3 in thousandths: [0, 0.3)
JitterPermille == {0, 150, 299}
\* the jitter drawn where reconnect delays are not what is looked at
SomeJitter == {150}

VARIABLES feeders, feederMetas, currentCandles, indicatorInstances,
          users, connections, now, sent, last, liveBars, backtest, paper

vars == <<feeders, feederMetas, currentCandles, indicatorInstances,
          users, connections, now, sent, last, liveBars, backtest, paper>>

\* the variables of the server; paper is the state of the page in the browser
serverVars == <<feeders, feederMetas, currentCandles, indicatorInstances,
                users, connections, now, sent, last, liveBars, backtest>>

\* ---------------- utilities ----------------
Min(a, b) == IF a < b THEN a ELSE b
Max(a, b) == IF a > b THEN a ELSE b

\* Math.round(n / d) for n >= 0, d > 0
RoundDiv(n, d) == (2 * n + d) \div (2 * d)

\* String.prototype.toUpperCase on the symbols the model uses
ToUpperCase(s) ==
  CASE s = "btcusdt" -> "BTCUSDT"
    [] s = "ethusdt" -> "ETHUSDT"
    [] s = "a#b" -> "A#B"
    [] OTHER -> s

\* String.prototype.toLowerCase on the symbols the model uses
ToLowerCase(s) ==
  CASE s = "BTCUSDT" -> "btcusdt"
    [] s = "ETHUSDT" -> "ethusdt"
    [] s = "A#B" -> "a#b"
    [] OTHER -> s

keyFor(symbol, interval) == <<ToUpperCase(symbol), interval>>

\* `${key}::${indicator || ''}`
createSubKey(key, indicator) ==
  <<key, IF indicator = NoIndicator THEN "" ELSE indicator>>

Keys == {<<"BTCUSDT", "1m">>, <<"ETHUSDT", "1m">>, <<"A#B", "1m">>}

clamp(n, lo, hi) == IF n < lo THEN lo ELSE (IF n > hi THEN hi ELSE n)

RECURSIVE SumRange(_, _, _)
\* s[a] + ... + s[b] (1-based, empty when a > b)
SumRange(s, a, b) == IF a > b THEN 0 ELSE s[b] + SumRange(s, a, b - 1)

RECURSIVE SumSqRange(_, _, _)
SumSqRange(s, a, b) == IF a > b THEN 0 ELSE s[b] * s[b] + SumSqRange(s, a, b - 1)

\* arr.slice(-n) for n >= 1
SliceLast(s, n) ==
  IF Len(s) <= n THEN s ELSE SubSeq(s, Len(s) - n + 1, Len(s))

\* arr.slice(start): a negative start counts from the end
SliceFrom(s, start) ==
  LET k == IF start < 0 THEN Max(Len(s) + start, 0) ELSE Min(start, Len(s))
  IN SubSeq(s, k + 1, Len(s))

\* arr.slice(0, -1)
DropLast(s) == IF Len(s) = 0 THEN s ELSE SubSeq(s, 1, Len(s) - 1)

\* ---------------- AruAlgo indicator engine (server.js 118-286) ----------------
\* A candle of the model carries the fields the server reads: time, close and,
\* in POST /backtest, open (high, low and volume are copied and never read).
BarO(t, o, c) == [time |-> t, open |-> o, close |-> c]
\* the bars the live paths are fed open at their close
Bar(t, c) == BarO(t, c, c)
NoBar == BarO(0, 0, 0)

\* Values are exact rationals n/d over integer prices; d = 0 stands for null.
Null == [n |-> 0, d |-> 0]
IsNull(v) == v.d = 0
RatLt(a, b) == a.n * b.d < b.n * a.d
RatLe(a, b) == a.n * b.d <= b.n * a.d
RatGt(a, b) == RatLt(b, a)
RatGe(a, b) == RatLe(b, a)

NoInstance == [exists |-> FALSE, times |-> <<>>, closes |-> <<>>, lastSignal |-> "null"]
NewAruAlgo == [exists |-> TRUE, times |-> <<>>, closes |-> <<>>, lastSignal |-> "null"]

NoSignal == [side |-> "none", reason |-> "none"]
Signal(side, reason) == [side |-> side, reason |-> reason]
\* no processCandle result
NoOut == [ready |-> FALSE, time |-> 0, close |-> 0, rsi |-> [ok |-> FALSE, gains |-> 0, losses |-> 0],
          signal |-> NoSignal]

_pushCandle(inst, candle) ==
  LET t == Append(inst.times, candle.time)
      c == Append(inst.closes, candle.close)
  IN IF Len(t) > MAX_ALGO_CANDLES
       THEN [inst EXCEPT !.times = Tail(t), !.closes = Tail(c)]
       ELSE [inst EXCEPT !.times = t, !.closes = c]

\* mutant: too few closes give a zero average instead of null
_smaFromCloses_ZeroWhenShort(closes, len) ==
  LET L == Len(closes)
  IN IF L < len THEN [n |-> 0, d |-> len]
     ELSE [n |-> SumRange(closes, L - len + 1, L), d |-> len]

_smaFromCloses(closes, len) ==
  LET L == Len(closes)
  IN IF L < len THEN Null
     ELSE [n |-> SumRange(closes, L - len + 1, L), d |-> len]

\* EMA in fixed point: the value is e / EmaScale.  The seed is the mean of the
\* first len closes, then ema = close*k + ema*(1-k) with k = 2/(len+1), i.e.
\* ema = (2*close + (len-1)*ema) / (len+1), applied from index len to the end.
EmaScale == 10 * 100

\* the loop body for i = a .. b in turn (split in halves, the first half's
\* result bound as a value, which keeps the evaluation shallow on a buffer of
\* MAX_ALGO_CANDLES closes)
RECURSIVE EmaFoldRange(_, _, _, _, _)
EmaFoldRange(arr, len, a, b, ema) ==
  IF a > b THEN ema
  ELSE IF a = b THEN RoundDiv(2 * arr[a] * EmaScale + (len - 1) * ema, len + 1)
  ELSE CHOOSE r \in {EmaFoldRange(arr, len, (a + b) \div 2 + 1, b, half) :
                       half \in {EmaFoldRange(arr, len, a, (a + b) \div 2, ema)}} : TRUE

EmaFold(arr, len, i, ema) == EmaFoldRange(arr, len, i, Len(arr), ema)

_emaFromCloses(closes, len) ==
  LET L == Len(closes)
  IN IF L < len THEN Null
     ELSE [n |-> EmaFold(closes, len, len + 1,
                         RoundDiv(SumRange(closes, 1, len) * EmaScale, len)),
           d |-> EmaScale]

RECURSIVE GainsRange(_, _, _)
\* sum of the positive deltas arr[i] - arr[i-1] for i in a..b (1-based)
GainsRange(arr, a, b) ==
  IF a > b THEN 0
  ELSE (IF arr[b] - arr[b - 1] > 0 THEN arr[b] - arr[b - 1] ELSE 0)
       + GainsRange(arr, a, b - 1)

RECURSIVE LossesRange(_, _, _)
\* sum of |delta| over the non-positive deltas for i in a..b (1-based)
LossesRange(arr, a, b) ==
  IF a > b THEN 0
  ELSE (IF arr[b] - arr[b - 1] > 0 THEN 0 ELSE arr[b - 1] - arr[b])
       + LossesRange(arr, a, b - 1)

\* RSI as the pair (gains, losses) it is computed from; ok = FALSE is null.
\* The loop runs i = L-period+1 .. L-1 (0-based), i.e. L-period+2 .. L here.
NullRsi == [ok |-> FALSE, gains |-> 0, losses |-> 0]
_rsiFromCloses(closes, period) ==
  LET L == Len(closes)
  IN IF L <= period THEN NullRsi
     ELSE [ok |-> TRUE,
           gains |-> GainsRange(closes, L - period + 2, L),
           losses |-> LossesRange(closes, L - period + 2, L)]

\* rsi = 100 - 100/(1 + gains/(losses || 1e-9)) against a threshold th in 1..99:
\* with losses > 0 it is 100*gains/(gains+losses); with losses = 0 it is 0 when
\* gains = 0 and 100 - 100/(1 + gains*1e9), above every such th, otherwise.
RsiLt(r, th) ==
  IF r.losses > 0 THEN 100 * r.gains < th * (r.gains + r.losses) ELSE r.gains = 0
RsiGt(r, th) ==
  IF r.losses > 0 THEN 100 * r.gains > th * (r.gains + r.losses) ELSE r.gains > 0
RsiGe(r, th) == ~RsiLt(r, th)
RsiLe(r, th) == ~RsiGt(r, th)

\* Bollinger(len, numStd) as the sums it is computed from: with S the sum and
\* Q the sum of squares of the last len closes, sma = S/len and
\* std^2 = (len*Q - S^2)/len^2.
NullBoll == [ok |-> FALSE, len |-> 0, numStd |-> 0, S |-> 0, Q |-> 0]
_bollingerFromCloses(closes, len, numStd) ==
  LET L == Len(closes)
  IN IF L < len THEN NullBoll
     ELSE [ok |-> TRUE, len |-> len, numStd |-> numStd,
           S |-> SumRange(closes, L - len + 1, L),
           Q |-> SumSqRange(closes, L - len + 1, L)]

\* close <= sma - numStd*std
BollLeLower(close, b) ==
  /\ b.S - b.len * close >= 0
  /\ (b.S - b.len * close) * (b.S - b.len * close)
       >= b.numStd * b.numStd * (b.len * b.Q - b.S * b.S)
\* close >= sma + numStd*std
BollGeUpper(close, b) ==
  /\ b.len * close - b.S >= 0
  /\ (b.len * close - b.S) * (b.len * close - b.S)
       >= b.numStd * b.numStd * (b.len * b.Q - b.S * b.S)

\* The four rule families of processCandle, each the signal it assigns
\* (NoSignal when it assigns none).
\* prior SMA: the window of len closes that ends before the newest close
priorSma(closes, len) ==
  [n |-> SumRange(closes, Len(closes) - len, Len(closes) - 1), d |-> len]

\* prior EMA: the EMA recomputed over closes.slice(0, -1)
priorEma(closes, len) == _emaFromCloses(DropLast(closes), len)

\* The prior RSI sums the 13 deltas i = prevL-13 .. prevL-1 (0-based) of
\* closes.slice(0,-1), i.e. the deltas at 1-based positions L-13 .. L-1.
priorRsi(closes) ==
  [ok |-> TRUE,
   gains |-> GainsRange(closes, Len(closes) - 13, Len(closes) - 1),
   losses |-> LossesRange(closes, Len(closes) - 13, Len(closes) - 1)]

SmaRule(closes) ==
  LET L == Len(closes)
      smaShort == _smaFromCloses(closes, 10)
      smaLong == _smaFromCloses(closes, 30)
      prevSmaShort == priorSma(closes, 10)
      prevSmaLong == priorSma(closes, 30)
  IN IF L >= 31 /\ ~IsNull(smaShort) /\ ~IsNull(smaLong)
       THEN IF RatLe(prevSmaShort, prevSmaLong) /\ RatGt(smaShort, smaLong)
              THEN Signal("buy", "sma_cross")
            ELSE IF RatGe(prevSmaShort, prevSmaLong) /\ RatLt(smaShort, smaLong)
              THEN Signal("sell", "sma_cross")
            ELSE NoSignal
       ELSE NoSignal

EmaRule(closes) ==
  LET L == Len(closes)
      emaShort == _emaFromCloses(closes, 10)
      emaLong == _emaFromCloses(closes, 30)
      emaShortPrev == priorEma(closes, 10)
      emaLongPrev == priorEma(closes, 30)
  IN IF L >= 31 /\ ~IsNull(emaShort) /\ ~IsNull(emaLong)
        /\ ~IsNull(emaShortPrev) /\ ~IsNull(emaLongPrev)
       THEN IF RatLe(emaShortPrev, emaLongPrev) /\ RatGt(emaShort, emaLong)
              THEN Signal("buy", "ema_cross")
            ELSE IF RatGe(emaShortPrev, emaLongPrev) /\ RatLt(emaShort, emaLong)
              THEN Signal("sell", "ema_cross")
            ELSE NoSignal
       ELSE NoSignal

RsiRule(closes) ==
  LET L == Len(closes)
      rsi == _rsiFromCloses(closes, 14)
      prior == priorRsi(closes)
  IN IF rsi.ok /\ L > 1 /\ L - 1 > 14
       THEN IF RsiLt(prior, 30) /\ RsiGe(rsi, 30)
              THEN Signal("buy", "rsi_oversold")
            ELSE IF RsiGt(prior, 70) /\ RsiLe(rsi, 70)
              THEN Signal("sell", "rsi_overbought")
            ELSE NoSignal
       ELSE NoSignal

BollRule(closes) ==
  LET boll == _bollingerFromCloses(closes, 20, 2)
      close == closes[Len(closes)]
  IN IF boll.ok
       THEN IF BollLeLower(close, boll) THEN Signal("buy", "boll_lower")
            ELSE IF BollGeUpper(close, boll) THEN Signal("sell", "boll_upper")
            ELSE NoSignal
       ELSE NoSignal

\* mutant: the first rule that qualifies keeps the field
LastOf_KeepsFirst(a, b) == IF a = NoSignal THEN b ELSE a

\* out.signal: each later rule that qualifies overwrites the field
LastOf(a, b) == IF b = NoSignal THEN a ELSE b

processCandle(inst, candle) ==
  LET pushed == _pushCandle(inst, candle)
      closes == pushed.closes
      sma == SmaRule(closes)
      signal == LastOf(LastOf(LastOf(sma, EmaRule(closes)), RsiRule(closes)),
                       BollRule(closes))
  IN [inst |-> [pushed EXCEPT !.lastSignal =
                   IF sma = NoSignal THEN pushed.lastSignal ELSE sma.side],
      out |-> [ready |-> TRUE, time |-> candle.time, close |-> candle.close,
               rsi |-> _rsiFromCloses(closes, 14), signal |-> signal]]

RECURSIVE SeedInstance(_, _, _)
\* for (i...) { try { inst.processCandle(seedCandles[i]) } catch (e) {} }
SeedInstance(inst, seedCandles, i) ==
  IF i > Len(seedCandles) THEN inst
  ELSE LET next == processCandle(inst, seedCandles[i]).inst
       IN IF next.exists THEN SeedInstance(next, seedCandles, i + 1) ELSE inst

\* ---------------- the world the handlers act on ----------------
Conns == {"c1", "c2"}
Sessions == {"s1", "guest-x1"}
GuestSession == "guest-x1"
NoKey == <<"", "">>

\* a feederMeta object; ws = FALSE is a meta created without a socket
\* (server.js 801); readyState is that of meta.ws
NewSocketMeta(symbol, interval) ==
  [symbol |-> symbol, interval |-> interval, ws |-> TRUE, readyState |-> "CONNECTING",
   reconnectMs |-> FEEDER_BASE_RETRY_MS, prevMs |-> 0, retryTimer |-> FALSE,
   connecting |-> TRUE]
NewBareMeta(symbol, interval) ==
  [symbol |-> symbol, interval |-> interval, ws |-> FALSE, readyState |-> "NONE",
   reconnectMs |-> FEEDER_BASE_RETRY_MS, prevMs |-> 0, retryTimer |-> FALSE,
   connecting |-> FALSE]

NoConnection ==
  [inMap |-> FALSE, readyState |-> "CLOSED", sessionId |-> NoSession, subscriptions |-> {},
   sendThrows |-> FALSE]
NoUser == [known |-> FALSE, premiumUntil |-> 0]

World ==
  [feeders |-> feeders, metas |-> feederMetas, candles |-> currentCandles,
   inst |-> indicatorInstances, users |-> users, conns |-> connections,
   now |-> now, sent |-> [c \in Conns |-> <<>>], out |-> NoOut, live |-> liveBars]

\* the messages a handler sends, per connection, in sending order
BlankMsg ==
  [type |-> "", reason |-> "", key |-> NoKey, indicator |-> NoIndicator,
   signal |-> NoSignal, time |-> 0, close |-> 0, isFinal |-> FALSE, data |-> <<>>]
ErrorMsg(reason) == [BlankMsg EXCEPT !.type = "error", !.reason = reason]
ReplyMsg(type, key, indicator) ==
  [BlankMsg EXCEPT !.type = type, !.key = key, !.indicator = indicator]
CandlesUpdateMsg(key, candle, isFinal) ==
  [BlankMsg EXCEPT !.type = "candles_update", !.key = key, !.time = candle.time,
                   !.close = candle.close, !.isFinal = isFinal]
IndicatorUpdateMsg(key, indicatorName, out) ==
  [BlankMsg EXCEPT !.type = "indicator_update", !.key = key, !.indicator = indicatorName,
                   !.signal = out.signal, !.time = out.time, !.close = out.close]
SignalMsg(key, signal) ==
  [BlankMsg EXCEPT !.type = "signal", !.key = key, !.signal = signal]

\* if (ws.readyState === WebSocket.OPEN) ws.send(...)
\* try { if (ws.readyState === WebSocket.OPEN) ws.send(...) } catch (_) {}:
\* a send that throws delivers nothing and the exception is swallowed
SendIfOpen(w, c, msg) ==
  IF w.conns[c].readyState = "OPEN" /\ ~w.conns[c].sendThrows
    THEN [w EXCEPT !.sent[c] = Append(@, msg)]
    ELSE w

\* mutant: premiumUntil is tested for presence and not against the clock
isPremium_IgnoresExpiry(w, sessionId) ==
  /\ sessionId \in Sessions
  /\ w.users[sessionId].known
  /\ w.users[sessionId].premiumUntil # 0

isPremium(w, sessionId) ==
  /\ sessionId \in Sessions
  /\ w.users[sessionId].known
  /\ w.users[sessionId].premiumUntil # 0
  /\ w.users[sessionId].premiumUntil > w.now

\* ---------------- scheduleReconnect (server.js 92-115) ----------------
\* jitter is Math.random()*0.3 in thousandths; m is the feederMeta passed in
BackoffMs(reconnectMs, jitter) ==
  LET ms0 == IF reconnectMs = 0 THEN FEEDER_BASE_RETRY_MS ELSE reconnectMs
      ms1 == Min(RoundDiv(ms0 * 18, 10), FEEDER_MAX_RETRY_MS)
  IN RoundDiv(ms1 * (1000 + jitter), 1000)

scheduleReconnect(w, feederKey, m, jitter) ==
  [w EXCEPT !.metas[m].prevMs = w.metas[m].reconnectMs,
            !.metas[m].reconnectMs = BackoffMs(w.metas[m].reconnectMs, jitter),
            !.metas[m].retryTimer = TRUE,
            !.feeders[feederKey] = m]

\* ---------------- startFeeder (server.js 769-808, 889-890) ----------------
\* new WebSocket(url) throws a SyntaxError on a url with a fragment: the
\* stream name `${symbol.toLowerCase()}@kline_${interval}` of a symbol with '#'
WebSocketThrows(symbol, interval) == ToLowerCase(symbol) = "a#b"

\* mutant: the early return forgets the connecting flag
FeederPresent_OpenOnly(w, key) ==
  /\ w.feeders[key] # 0
  /\ w.metas[w.feeders[key]].ws /\ w.metas[w.feeders[key]].readyState = "OPEN"

\* if (existing) { if (ws open) return; if (existing.connecting) return; }
FeederPresent(w, key) ==
  /\ w.feeders[key] # 0
  /\ \/ (w.metas[w.feeders[key]].ws /\ w.metas[w.feeders[key]].readyState = "OPEN")
     \/ w.metas[w.feeders[key]].connecting

\* ensure indicator instance exists & seeded (779-792)
EnsureSeeded(w, key) ==
  IF w.inst[key].exists THEN w
  ELSE [w EXCEPT !.inst[key] = SeedInstance(NewAruAlgo, w.candles[key], 1)]

startFeeder(w, symbol, interval, jitter) ==
  LET key == keyFor(symbol, interval)
      w1 == EnsureSeeded(w, key)
      fresh == Len(w1.metas) + 1
  IN IF FeederPresent(w, key) THEN w
     ELSE IF WebSocketThrows(symbol, interval)
       THEN IF w1.feeders[key] # 0
              THEN scheduleReconnect(w1, key, w1.feeders[key], jitter)
              ELSE scheduleReconnect(
                     [w1 EXCEPT !.metas = Append(@, NewBareMeta(symbol, interval)),
                                !.feeders[key] = fresh],
                     key, fresh, jitter)
       ELSE [w1 EXCEPT !.metas = Append(@, NewSocketMeta(symbol, interval)),
                       !.feeders[key] = fresh]

\* ---------------- broadcast helpers (server.js 289-325) ----------------
\* mutant: the broadcast skips connections that hold no subscription
BroadcastAllTo_SubscribersOnly(w, c, msg) ==
  IF w.conns[c].inMap /\ w.conns[c].subscriptions # {} THEN SendIfOpen(w, c, msg) ELSE w

BroadcastAllTo(w, c, msg) ==
  IF w.conns[c].inMap THEN SendIfOpen(w, c, msg) ELSE w

RECURSIVE broadcastOver_AbortsOnThrow(_, _, _)
\* mutant: the exception of a send ends the loop
broadcastOver_AbortsOnThrow(w, todo, msg) ==
  IF todo = {} THEN w
  ELSE LET c == CHOOSE x \in todo : TRUE
       IN IF w.conns[c].inMap /\ w.conns[c].readyState = "OPEN" /\ w.conns[c].sendThrows
            THEN w
            ELSE broadcastOver_AbortsOnThrow(BroadcastAllTo(w, c, msg), todo \ {c}, msg)

RECURSIVE broadcastOver(_, _, _)
broadcastOver(w, todo, msg) ==
  IF todo = {} THEN w
  ELSE LET c == CHOOSE x \in todo : TRUE
       IN broadcastOver(BroadcastAllTo(w, c, msg), todo \ {c}, msg)

broadcastAll(w, msg) == broadcastOver(w, Conns, msg)

\* mutant: premium_expired is sent and the subscription is kept
BroadcastIndicatorTo_NoRevoke(w, c, baseKey, indicatorName, out) ==
  LET meta == w.conns[c]
      subKey == createSubKey(baseKey, indicatorName)
  IN IF ~meta.inMap THEN w
     ELSE IF subKey \notin meta.subscriptions
             /\ createSubKey(baseKey, NoIndicator) \notin meta.subscriptions THEN w
     ELSE IF ~isPremium(w, meta.sessionId)
       THEN SendIfOpen(w, c, ErrorMsg("premium_expired"))
       ELSE SendIfOpen(w, c, IndicatorUpdateMsg(baseKey, indicatorName, out))

\* one iteration of the loop of broadcastIndicator (302-314)
BroadcastIndicatorTo(w, c, baseKey, indicatorName, out) ==
  LET meta == w.conns[c]
      subKey == createSubKey(baseKey, indicatorName)
  IN IF ~meta.inMap THEN w
     ELSE IF subKey \notin meta.subscriptions
             /\ createSubKey(baseKey, NoIndicator) \notin meta.subscriptions THEN w
     ELSE IF ~isPremium(w, meta.sessionId)
       THEN [SendIfOpen(w, c, ErrorMsg("premium_expired"))
               EXCEPT !.conns[c].subscriptions = @ \ {subKey}]
       ELSE SendIfOpen(w, c, IndicatorUpdateMsg(baseKey, indicatorName, out))

RECURSIVE broadcastIndicatorOver(_, _, _, _, _)
broadcastIndicatorOver(w, todo, baseKey, indicatorName, out) ==
  IF todo = {} THEN w
  ELSE LET c == CHOOSE x \in todo : TRUE
       IN broadcastIndicatorOver(BroadcastIndicatorTo(w, c, baseKey, indicatorName, out),
                                 todo \ {c}, baseKey, indicatorName, out)

broadcastIndicator(w, symbol, interval, indicatorName, out) ==
  broadcastIndicatorOver(w, Conns, keyFor(symbol, interval), indicatorName, out)

broadcastSignalAll(w, signal, symbol, interval) ==
  IF signal = NoSignal THEN w
  ELSE broadcastOver(w, Conns, SignalMsg(keyFor(symbol, interval), signal))

\* ---------------- candle cache merges ----------------
\* mutant: the feeder's merge never evicts
MergeFeed_NoEvict(arr, candle) ==
  IF Len(arr) > 0 /\ arr[Len(arr)].time = candle.time
    THEN [arr EXCEPT ![Len(arr)] = candle]
    ELSE Append(arr, candle)

\* the feeder's merge (server.js 834-844): shift only after a push
MergeFeed(arr, candle) ==
  IF Len(arr) > 0 /\ arr[Len(arr)].time = candle.time
    THEN [arr EXCEPT ![Len(arr)] = candle]
    ELSE LET pushed == Append(arr, candle)
         IN IF Len(pushed) > MAX_CANDLES_CACHE THEN Tail(pushed) ELSE pushed

\* mutant: on overflow the bar just appended is dropped, not the oldest
MergeIngest_DropsNewest(arr, candle) ==
  LET merged == IF Len(arr) > 0 /\ arr[Len(arr)].time = candle.time
                  THEN [arr EXCEPT ![Len(arr)] = candle]
                  ELSE Append(arr, candle)
  IN IF Len(merged) > MAX_CANDLES_CACHE THEN DropLast(merged) ELSE merged

\* the merge of POST /ingest (server.js 503-509): shift checked after either branch
MergeIngest(arr, candle) ==
  LET merged == IF Len(arr) > 0 /\ arr[Len(arr)].time = candle.time
                  THEN [arr EXCEPT ![Len(arr)] = candle]
                  ELSE Append(arr, candle)
  IN IF Len(merged) > MAX_CANDLES_CACHE THEN Tail(merged) ELSE merged

\* out.ready: broadcastIndicator, then broadcastSignalAll when out.signal is set
BroadcastOut(w, symbol, interval, out) ==
  IF out.ready
    THEN broadcastSignalAll(broadcastIndicator(w, symbol, interval, ALGO_INDICATOR, out),
                            out.signal, symbol, interval)
    ELSE w

\* ---------------- shutdown (server.js 903-918) ----------------
\* one iteration of `for (const [key, f] of feeders.entries())`:
\* clearTimeout(f.retryTimer); f.ws.terminate(); feeders.delete(key).
\* terminate() destroys the socket; its 'close' event is emitted later
ShutdownFeeder(w, key) ==
  LET m == w.feeders[key]
  IN IF m = 0 THEN w
     ELSE [w EXCEPT !.metas[m].retryTimer = FALSE,
                    !.metas[m].readyState =
                       IF w.metas[m].ws /\ @ \in {"CONNECTING", "OPEN"} THEN "CLOSING" ELSE @,
                    !.feeders[key] = 0]

RECURSIVE shutdownOver(_, _)
shutdownOver(w, todo) ==
  IF todo = {} THEN w
  ELSE LET key == CHOOSE k \in todo : TRUE
       IN shutdownOver(ShutdownFeeder(w, key), todo \ {key})

shutdown(w) == shutdownOver(w, Keys)

\* ---------------- the feeder's socket handlers (server.js 810-887) ----------------
MetaKey(w, m) == keyFor(w.metas[m].symbol, w.metas[m].interval)

\* bws.on('open')
OnOpen(w, m) ==
  [w EXCEPT !.metas[m].readyState = "OPEN",
            !.metas[m].connecting = FALSE,
            !.metas[m].reconnectMs = FEEDER_BASE_RETRY_MS]

\* bws.on('close') and bws.on('error'): feeders.delete(key); scheduleReconnect(...)
OnCloseOrError(w, m, readyState, jitter) ==
  scheduleReconnect([w EXCEPT !.metas[m].readyState = readyState,
                              !.feeders[MetaKey(w, m)] = 0],
                    MetaKey(w, m), m, jitter)

\* the timer callback of scheduleReconnect (105-109)
OnRetryTimer(w, m, jitter) ==
  startFeeder([w EXCEPT !.metas[m].retryTimer = FALSE],
              w.metas[m].symbol, w.metas[m].interval, jitter)

\* mutant: the engine runs on every bar, final or not
\* processCandle raising an exception: before it has pushed the bar, or after
\* the push; it returns nothing
processCandleFault(inst, candle, afterPush) ==
  [inst |-> IF afterPush THEN _pushCandle(inst, candle) ELSE inst, out |-> NoOut]

\* mutant: a fault of the engine loses the bar
OnFeedMessageFault_DropsBar(w, m, kt, close, afterPush) == w

\* the feeder's message handler on a final bar whose processCandle raises: the
\* inner catch (860-862) logs and the handler returns
OnFeedMessageFault(w, m, kt, close, afterPush) ==
  LET key == MetaKey(w, m)
      candle == Bar(kt \div 1000, close)
      w1 == [w EXCEPT !.candles[key] = MergeFeed(@, candle)]
      w2 == broadcastAll(w1, CandlesUpdateMsg(key, candle, TRUE))
      res == processCandleFault(w2.inst[key], candle, afterPush)
  IN IF kt = 0 THEN w
     ELSE IF w2.inst[key].exists
       THEN [w2 EXCEPT !.inst[key] = res.inst, !.live[key] = @ + 1]
       ELSE [w2 EXCEPT !.live[key] = @ + 1]

OnFeedMessage_AlwaysEngine(w, m, kt, close, isFinal) ==
  LET key == MetaKey(w, m)
      candle == Bar(kt \div 1000, close)
      w1 == [w EXCEPT !.candles[key] = MergeFeed(@, candle)]
      w2 == broadcastAll(w1, CandlesUpdateMsg(key, candle, isFinal))
      res == processCandle(w2.inst[key], candle)
  IN IF kt = 0 THEN w
     ELSE IF w2.inst[key].exists
       THEN BroadcastOut([w2 EXCEPT !.inst[key] = res.inst, !.out = res.out,
                                    !.live[key] = @ + 1],
                         w.metas[m].symbol, w.metas[m].interval, res.out)
       ELSE [w2 EXCEPT !.live[key] = @ + 1]

\* bws.on('message'): kt is k.t in ms, close is k.c, isFinal is k.x
OnFeedMessage(w, m, kt, close, isFinal) ==
  LET key == MetaKey(w, m)
      symbol == w.metas[m].symbol
      interval == w.metas[m].interval
      candle == Bar(kt \div 1000, close)
      w1 == [w EXCEPT !.candles[key] = MergeFeed(@, candle)]
      w2 == broadcastAll(w1, CandlesUpdateMsg(key, candle, isFinal))
      res == processCandle(w2.inst[key], candle)
  IN IF kt = 0 THEN w
     ELSE IF isFinal /\ w2.inst[key].exists
       THEN BroadcastOut([w2 EXCEPT !.inst[key] = res.inst, !.out = res.out,
                                    !.live[key] = @ + 1],
                         symbol, interval, res.out)
       ELSE [w2 EXCEPT !.live[key] = @ + 1]

\* ---------------- the websocket server's handlers (server.js 328-425) ----------------
DefaultSymbol(s) == IF s = "" THEN "BTCUSDT" ELSE s
DefaultInterval(s) == IF s = "" THEN "1m" ELSE s

\* wss.on('connection')
OnConnection(w, c) ==
  SendIfOpen([w EXCEPT !.conns[c] = [inMap |-> TRUE, readyState |-> "OPEN",
                                     sessionId |-> NoSession, subscriptions |-> {},
                                     sendThrows |-> FALSE]],
             c, ReplyMsg("welcome", NoKey, NoIndicator))

\* ws.on('close') and ws.on('error'): connections.delete(ws)
OnConnClose(w, c) == [w EXCEPT !.conns[c] = NoConnection]

\* case 'auth': sessionIdIn = "" is a message without sessionId
OnAuth(w, c, sessionIdIn, demoPremium) ==
  LET sid == IF sessionIdIn = "" THEN GuestSession ELSE sessionIdIn
      w1 == [w EXCEPT !.conns[c].sessionId = sid]
      w2 == IF w1.users[sid].known THEN w1
            ELSE [w1 EXCEPT !.users[sid] =
                    [known |-> TRUE,
                     premiumUntil |-> IF demoPremium THEN w.now + DEMO_PREMIUM_MINUTES ELSE 0]]
  IN SendIfOpen(w2, c, [ReplyMsg("auth_ok", NoKey, NoIndicator)
                          EXCEPT !.isFinal = isPremium(w2, sid)])

\* mutant: the subscription is recorded before the entitlement is checked
OnSubscribe_RecordsFirst(w, c, symbolIn, intervalIn, indicatorIn, jitter) ==
  LET symbol == ToUpperCase(DefaultSymbol(symbolIn))
      interval == DefaultInterval(intervalIn)
      subKey == createSubKey(keyFor(symbol, interval), indicatorIn)
      w0 == [w EXCEPT !.conns[c].subscriptions = @ \cup {subKey}]
      w1 == startFeeder(w0, symbol, interval, jitter)
  IN IF indicatorIn # NoIndicator /\ ~isPremium(w, w.conns[c].sessionId)
       THEN SendIfOpen(w0, c, ErrorMsg("indicator_requires_premium"))
       ELSE SendIfOpen(w1, c, ReplyMsg("subscribed", keyFor(symbol, interval), indicatorIn))

\* case 'subscribe': indicatorIn = NoIndicator is a message without indicator
OnSubscribe(w, c, symbolIn, intervalIn, indicatorIn, jitter) ==
  LET symbol == ToUpperCase(DefaultSymbol(symbolIn))
      interval == DefaultInterval(intervalIn)
      w1 == startFeeder(w, symbol, interval, jitter)
      subKey == createSubKey(keyFor(symbol, interval), indicatorIn)
  IN IF indicatorIn # NoIndicator /\ ~isPremium(w, w.conns[c].sessionId)
       THEN SendIfOpen(w, c, ErrorMsg("indicator_requires_premium"))
       ELSE SendIfOpen([w1 EXCEPT !.conns[c].subscriptions = @ \cup {subKey}],
                       c, ReplyMsg("subscribed", keyFor(symbol, interval), indicatorIn))

\* case 'unsubscribe'
OnUnsubscribe(w, c, symbolIn, intervalIn, indicatorIn) ==
  LET symbol == ToUpperCase(DefaultSymbol(symbolIn))
      interval == DefaultInterval(intervalIn)
      subKey == createSubKey(keyFor(symbol, interval), indicatorIn)
  IN SendIfOpen([w EXCEPT !.conns[c].subscriptions = @ \ {subKey}],
                c, ReplyMsg("unsubscribed", keyFor(symbol, interval), indicatorIn))

\* case 'get_snapshot': limitIn = 0 is a message whose limit is absent, 0 or
\* not a number (Number(msg.limit) || 500)
\* a message that does not parse or has no string type (347-350), or whose
\* type is none of the cases (406-409): reason is the error it is answered with
OnBadMessage(w, c, reason) == SendIfOpen(w, c, ErrorMsg(reason))

OnGetSnapshot(w, c, symbolIn, intervalIn, limitIn) ==
  LET symbol == ToUpperCase(DefaultSymbol(symbolIn))
      interval == DefaultInterval(intervalIn)
      limit == Min(SNAPSHOT_MAX_LIMIT,
                   IF limitIn = 0 THEN SNAPSHOT_DEFAULT_LIMIT ELSE limitIn)
      arr == w.candles[keyFor(symbol, interval)]
  IN SendIfOpen(w, c, [ReplyMsg("snapshot", keyFor(symbol, interval), NoIndicator)
                         EXCEPT !.data = SliceFrom(arr, 0 - limit)])

\* ---------------- REST handlers ----------------
\* /^[A-Z0-9]{3,12}$/.test(symbol) on the symbols the model uses
ValidSymbol(symbol) == symbol \in {"BTCUSDT", "ETHUSDT"}

\* GET /history (451-490) with a well-formed upstream answer `data`
OnHistory(w, symbolIn, intervalIn, data, jitter) ==
  LET symbol == ToUpperCase(DefaultSymbol(symbolIn))
      interval == DefaultInterval(intervalIn)
      key == keyFor(symbol, interval)
  IN IF ~ValidSymbol(symbol) THEN w
     ELSE startFeeder([w EXCEPT !.candles[key] = SliceLast(data, MAX_SEED_CANDLES)],
                      symbol, interval, jitter)

\* POST /ingest (493-538): candle.valid = FALSE is a candle parseCandle rejects
\* POST /ingest when processCandle raises on the incoming candle: out stays
\* null (525), nothing of the engine is broadcast, candles_update is (532)
OnIngestFault(w, symbolIn, intervalIn, candle, afterPush) ==
  LET sym == ToUpperCase(symbolIn)
      intv == DefaultInterval(intervalIn)
      key == keyFor(sym, intv)
      ck == Bar(candle.time, candle.close)
      arr == MergeIngest(w.candles[key], ck)
      w1 == [w EXCEPT !.candles[key] = arr]
      w2 == IF w1.inst[key].exists THEN w1
            ELSE [w1 EXCEPT !.inst[key] = SeedInstance(NewAruAlgo, arr, 1)]
      res == processCandleFault(w2.inst[key], ck, afterPush)
      w3 == [w2 EXCEPT !.inst[key] = res.inst, !.live[key] = @ + 1]
  IN IF symbolIn = "" \/ ~candle.present \/ ~candle.valid THEN w
     ELSE broadcastAll(w3, CandlesUpdateMsg(key, ck, TRUE))

OnIngest(w, symbolIn, intervalIn, candle) ==
  LET sym == ToUpperCase(symbolIn)
      intv == DefaultInterval(intervalIn)
      key == keyFor(sym, intv)
      ck == Bar(candle.time, candle.close)
      arr == MergeIngest(w.candles[key], ck)
      w1 == [w EXCEPT !.candles[key] = arr]
      w2 == IF w1.inst[key].exists THEN w1
            ELSE [w1 EXCEPT !.inst[key] = SeedInstance(NewAruAlgo, arr, 1)]
      res == processCandle(w2.inst[key], ck)
      w3 == BroadcastOut([w2 EXCEPT !.inst[key] = res.inst, !.out = res.out,
                                    !.live[key] = @ + 1],
                         sym, intv, res.out)
  IN IF symbolIn = "" \/ ~candle.present \/ ~candle.valid THEN w
     ELSE broadcastAll(w3, CandlesUpdateMsg(key, ck, TRUE))

\* POST /demo/grant: minutes = 0 is a body without minutes
OnGrant(w, sessionId, minutes) ==
  LET mins == clamp(IF minutes = 0 THEN DEFAULT_GRANT_MINUTES ELSE minutes,
                    1, MAX_GRANT_MINUTES)
  IN [w EXCEPT !.users[sessionId] = [known |-> TRUE, premiumUntil |-> w.now + mins]]

\* POST /demo/revoke
OnRevoke(w, sessionId) ==
  [w EXCEPT !.users[sessionId] = [known |-> TRUE, premiumUntil |-> 0]]

\* ---------------- POST /backtest (server.js 623-766) ----------------
\* Money is in fixed point: cash, prices and PnL in hundredths, quantities in
\* thousandths; fractions of the request (size_pct, commission_pct) in 1/10000.
CashScale == 10 * 10
QtyScale == 10 * 100
E4 == 100 * 100

\* round(a * b / d) for d > 0, computed without forming a * b
MulDiv(a, b, d) == (a \div d) * b + ((a % d) * b + d \div 2) \div d

\* a request body; a field that is 0 or "" is absent (every read is `x || default`)
EmptyBody ==
  [symbol |-> "", interval |-> "", strategy |-> "", limit |-> 0,
   initial_capital |-> 0, size_e4 |-> 0, slippage_bps |-> 0, commission_e4 |-> 0,
   sma_short |-> 0, sma_long |-> 0, rsi_period |-> 0, rsi_overbought |-> 0,
   rsi_oversold |-> 0]

OrDefault(v, d) == IF v = 0 THEN d ELSE v

\* a backtest request and its response; status 0 is no response yet, data is
\* the array the klines endpoint answers the request's fetch with, bars the
\* array the run read (the cache of the pair or data)
NoBacktest ==
  [body |-> EmptyBody, data |-> <<>>, bars |-> <<>>, status |-> 0, error |-> "", strategy |-> "", arr |-> <<>>, trades |-> <<>>,
   equity |-> <<>>, walk |-> <<>>, finalEquity |-> 0, cash |-> 0, position |-> 0]

RECURSIVE InsertByTime(_, _)
\* insertion keeping the order of bars with equal times (Array.prototype.sort is stable)
InsertByTime(sorted, bar) ==
  IF sorted = <<>> THEN <<bar>>
  ELSE IF sorted[Len(sorted)].time <= bar.time THEN Append(sorted, bar)
  ELSE Append(InsertByTime(DropLast(sorted), bar), sorted[Len(sorted)])

RECURSIVE SortByTime(_)
\* arr.sort((a, b) => a.time - b.time)
SortByTime(arr) ==
  IF arr = <<>> THEN <<>>
  ELSE InsertByTime(SortByTime(DropLast(arr)), arr[Len(arr)])

\* closes of the bars, so that data[i].close of the source is ClosesOf(data)[i + 1]
ClosesOf(data) == [i \in 1..Len(data) |-> data[i].close]

\* const SMA = (data, idx, len) => ... (646-651), idx 0-based
SMA(data, idx, len) ==
  LET start == idx - len + 1
  IN IF start < 0 THEN Null
     ELSE [n |-> SumRange(ClosesOf(data), start + 1, idx + 1), d |-> len]

\* const RSI = (data, idx, period) => ... (652-661), idx 0-based: the deltas
\* data[i].close - data[i-1].close for i = idx-period+1 .. idx
RSI(data, idx, period) ==
  IF idx - period < 0 THEN NullRsi
  ELSE [ok |-> TRUE,
        gains |-> GainsRange(ClosesOf(data), idx - period + 2, idx + 1),
        losses |-> LossesRange(ClosesOf(data), idx - period + 2, idx + 1)]

\* mutant: the sma strategy tests the current bar only, not the edge
BacktestSignal_NoEdge(arr, cfg, i) ==
  LET sShort == SMA(arr, i, cfg.smaShort)
      sLong == SMA(arr, i, cfg.smaLong)
  IN IF cfg.strategy = "sma" /\ ~IsNull(sShort) /\ ~IsNull(sLong)
       THEN IF RatGt(sShort, sLong) THEN "buy"
            ELSE IF RatLt(sShort, sLong) THEN "sell"
            ELSE "null"
     ELSE "null"

\* the signal of bar i (681-695)
BacktestSignal(arr, cfg, i) ==
  LET sShort == SMA(arr, i, cfg.smaShort)
      sLong == SMA(arr, i, cfg.smaLong)
      rsi == RSI(arr, i, cfg.rsiPeriod)
      sShortPrev == SMA(arr, i - 1, cfg.smaShort)
      sLongPrev == SMA(arr, i - 1, cfg.smaLong)
      prevRsi == RSI(arr, i - 1, cfg.rsiPeriod)
  IN IF cfg.strategy = "sma" /\ ~IsNull(sShort) /\ ~IsNull(sLong)
       THEN IF ~IsNull(sShortPrev) /\ ~IsNull(sLongPrev)
              THEN IF RatLe(sShortPrev, sLongPrev) /\ RatGt(sShort, sLong) THEN "buy"
                   ELSE IF RatGe(sShortPrev, sLongPrev) /\ RatLt(sShort, sLong) THEN "sell"
                   ELSE "null"
              ELSE "null"
     ELSE IF cfg.strategy = "rsi" /\ rsi.ok
       THEN IF prevRsi.ok
              THEN IF RsiLt(prevRsi, cfg.rsiOversold) /\ RsiGe(rsi, cfg.rsiOversold) THEN "buy"
                   ELSE IF RsiGt(prevRsi, cfg.rsiOverbought) /\ RsiLe(rsi, cfg.rsiOverbought)
                     THEN "sell"
                   ELSE "null"
              ELSE "null"
     ELSE "null"

\* mutant: the fill price leaves the commission out
ExecPrice_NoCommission(price, cfg, sign) ==
  MulDiv(price * CashScale, E4 + sign * cfg.slippageBps, E4)

\* nextBar.open * (1 +- slippageBps / 10000) * (1 +- commissionPct), in hundredths
ExecPrice(price, cfg, sign) ==
  MulDiv(MulDiv(price * CashScale, E4 + sign * cfg.slippageBps, E4),
         E4 + sign * cfg.commissionE4, E4)

\* mutant: a buy signal opens a position whether or not one is open
OpensPosition_Pyramids(signal, position) == signal = "buy"

\* signal === 'buy' && position === 0
OpensPosition(signal, position) == signal = "buy" /\ position = 0

\* signal === 'sell' && position > 0
ClosesPosition(signal, position) == signal = "sell" /\ position > 0

\* a row of trades; a null entry_price, exit_price or pnl is 0
Trade(ts, side, entry_price, exit_price, qty, pnl, note) ==
  [ts |-> ts, side |-> side, entry_price |-> entry_price, exit_price |-> exit_price,
   qty |-> qty, pnl |-> pnl, note |-> note]

\* one iteration of the loop (676-721); walk records, per bar, the signal and
\* the position before and after it
BacktestBar(arr, cfg, i, st) ==
  LET signal == BacktestSignal(arr, cfg, i)
      nextBar == arr[i + 2]
      buyPrice == ExecPrice(nextBar.open, cfg, 1)
      qty == MulDiv(MulDiv(st.cash, cfg.sizeE4, E4), QtyScale, buyPrice)
      sellPrice == ExecPrice(nextBar.open, cfg, 0 - 1)
      traded ==
        IF OpensPosition(signal, st.position)
          THEN [st EXCEPT !.position = qty, !.entryPrice = buyPrice,
                          !.cash = @ - MulDiv(qty, buyPrice, QtyScale),
                          !.trades = Append(@, Trade(nextBar.time, "buy", buyPrice, 0, qty, 0,
                                                     cfg.strategy \o "_buy"))]
        ELSE IF ClosesPosition(signal, st.position)
          THEN [st EXCEPT !.position = 0,
                          !.cash = @ + MulDiv(st.position, sellPrice, QtyScale),
                          !.trades = Append(@, Trade(nextBar.time, "sell", 0, sellPrice,
                                                     st.position,
                                                     MulDiv(st.position,
                                                            sellPrice - st.entryPrice,
                                                            QtyScale),
                                                     cfg.strategy \o "_sell"))]
        ELSE st
      marketValue == IF traded.position > 0
                       THEN MulDiv(traded.position, arr[i + 1].close * CashScale, QtyScale)
                       ELSE 0
  IN [traded EXCEPT
        !.equity = Append(@, [time |-> arr[i + 1].time, equity |-> traded.cash + marketValue]),
        !.walk = Append(@, [i |-> i, signal |-> signal, before |-> st.position,
                            cash |-> st.cash, after |-> traded.position,
                            trades |-> Len(traded.trades)])]

RECURSIVE BacktestWalk(_, _, _, _)
\* for (let i = 1; i < arr.length - 1; i++) { ... }
BacktestWalk(arr, cfg, i, st) ==
  IF i >= Len(arr) - 1 THEN st
  ELSE LET next == BacktestBar(arr, cfg, i, st)
       IN IF Len(next.equity) > Len(st.equity)
            THEN BacktestWalk(arr, cfg, i + 1, next)
            ELSE next

\* mutant: the run ends without the forced close
BacktestFinish_LeavesOpen(arr, cfg, st) == st

\* mutant: the forced close records no equity point
BacktestFinish_NoEquityPoint(arr, cfg, st) ==
  LET lastBar == arr[Len(arr)]
      exitPrice == ExecPrice(lastBar.close, cfg, 0 - 1)
      cash == st.cash + MulDiv(st.position, exitPrice, QtyScale)
  IN IF st.position > 0
       THEN [st EXCEPT !.cash = cash, !.position = 0,
                       !.trades = Append(@, Trade(lastBar.time, "sell", 0, exitPrice, st.position,
                                                  MulDiv(st.position,
                                                         exitPrice - st.entryPrice, QtyScale),
                                                  "exit_on_finish"))]
       ELSE st

\* if (position > 0) { ... note: 'exit_on_finish' ... } (723-732)
BacktestFinish(arr, cfg, st) ==
  LET lastBar == arr[Len(arr)]
      exitPrice == ExecPrice(lastBar.close, cfg, 0 - 1)
      cash == st.cash + MulDiv(st.position, exitPrice, QtyScale)
  IN IF st.position > 0
       THEN [st EXCEPT !.cash = cash, !.position = 0,
                       !.trades = Append(@, Trade(lastBar.time, "sell", 0, exitPrice, st.position,
                                                  MulDiv(st.position,
                                                         exitPrice - st.entryPrice, QtyScale),
                                                  "exit_on_finish")),
                       !.equity = Append(@, [time |-> lastBar.time, equity |-> cash])]
       ELSE st

\* the configuration read from the body (626-633, 670-674)
BacktestConfig(body) ==
  [strategy |-> IF body.strategy = "" THEN "sma" ELSE body.strategy,
   limit |-> Min(BT_MAX_LIMIT, OrDefault(body.limit, BT_DEFAULT_LIMIT)),
   initialCapital |-> OrDefault(body.initial_capital, BT_DEFAULT_CAPITAL),
   sizeE4 |-> Max(BT_MIN_SIZE_E4, OrDefault(body.size_e4, BT_DEFAULT_SIZE_E4)),
   slippageBps |-> OrDefault(body.slippage_bps, BT_DEFAULT_SLIPPAGE_BPS),
   commissionE4 |-> OrDefault(body.commission_e4, BT_DEFAULT_COMMISSION_E4),
   smaShort |-> OrDefault(body.sma_short, BT_SMA_SHORT),
   smaLong |-> OrDefault(body.sma_long, BT_SMA_LONG),
   rsiPeriod |-> OrDefault(body.rsi_period, BT_RSI_PERIOD),
   rsiOverbought |-> OrDefault(body.rsi_overbought, BT_RSI_OVERBOUGHT),
   rsiOversold |-> OrDefault(body.rsi_oversold, BT_RSI_OVERSOLD)]

\* the handler: data is the array the klines endpoint answers with when the
\* cache of the pair holds fewer than 50 bars
OnBacktest(w, body, data) ==
  LET cfg == BacktestConfig(body)
      key == keyFor(DefaultSymbol(body.symbol), DefaultInterval(body.interval))
      cached == w.candles[key]
      arr0 == IF Len(cached) < BT_MIN_CACHED_BARS THEN data ELSE cached
      arr == SortByTime(SliceFrom(arr0, 0 - cfg.limit))
      start == [cash |-> cfg.initialCapital * CashScale, position |-> 0, entryPrice |-> 0,
                trades |-> <<>>, equity |-> <<>>, walk |-> <<>>]
      end == BacktestFinish(arr, cfg, BacktestWalk(arr, cfg, 1, start))
  IN IF Len(arr0) < BT_MIN_BARS
       THEN [NoBacktest EXCEPT !.body = body, !.data = data, !.bars = arr0,
                               !.status = 400, !.error = "not_enough_data"]
       ELSE [body |-> body, data |-> data, bars |-> arr0,
             status |-> 200, error |-> "", strategy |-> cfg.strategy, arr |-> arr,
             trades |-> end.trades, equity |-> end.equity, walk |-> end.walk,
             finalEquity |-> IF end.equity = <<>> THEN end.cash
                             ELSE end.equity[Len(end.equity)].equity,
             cash |-> end.cash, position |-> end.position]

\* ---------------- paper trading in the page (part_000 1738-2169) ----------------
\* The page runs on one thread; an async function gives the thread up at its
\* await and goes on when the awaited persistTrade has answered.  A task is an
\* invocation suspended at `await persistTrade(...)`.
PositionIds == {"p1", "p2"}
MaxPaperTasks == 2
TaskIds == 1..MaxPaperTasks

\* kind "eval": evaluatePaperPositionsOnCandle with its candle (hits: the
\* positions whose take-profit or stop-loss the candle reaches), loop index i
\* (1-based), toClose and the position being closed; kind "manual":
\* closePosition with its pos and posIdx
NoTask == [kind |-> "none", hits |-> {}, i |-> 0, toClose |-> <<>>, pos |-> "", posIdx |-> 0]

\* openPositions holds position ids; credited[p] counts the executions of
\* `paperAccount.balance += pos.initial_notional + pnl` for p, closedTrades[p]
\* the entries of p pushed on closedTrades
NoPaper ==
  [openPositions |-> <<>>, placed |-> {},
   credited |-> [p \in PositionIds |-> 0],
   closedTrades |-> [p \in PositionIds |-> 0],
   tasks |-> [t \in TaskIds |-> NoTask]]

\* openPositions.findIndex(p => p.id === posId), 1-based; 0 for -1
findIndex(q, posId) ==
  IF \E i \in DOMAIN q : q[i] = posId
    THEN CHOOSE i \in DOMAIN q : q[i] = posId /\ \A j \in 1..(i - 1) : q[j] # posId
    ELSE 0

\* openPositions.splice(idx, 1) at the 1-based idx; nothing past the end
splice(q, idx) ==
  IF idx \in DOMAIN q THEN SubSeq(q, 1, idx - 1) \o SubSeq(q, idx + 1, Len(q)) ELSE q

RECURSIVE SpliceAll(_, _, _)
\* for (let j = toClose.length - 1; j >= 0; j--) openPositions.splice(toClose[j], 1)
SpliceAll(q, toClose, j) ==
  IF j = 0 THEN q ELSE SpliceAll(splice(q, toClose[j]), toClose, j - 1)

RECURSIVE evaluateFrom(_, _, _)
\* the loop of evaluatePaperPositionsOnCandle from index t.i on, up to its
\* next await or, past the last position, through the removal of toClose
evaluateFrom(p, tid, t) ==
  IF t.i > Len(p.openPositions)
    THEN [p EXCEPT !.openPositions = SpliceAll(@, t.toClose, Len(t.toClose)),
                   !.tasks[tid] = NoTask]
  ELSE LET pos == p.openPositions[t.i]
       IN IF pos \in t.hits
            THEN [p EXCEPT !.credited[pos] = @ + 1,
                           !.tasks[tid] = [t EXCEPT !.pos = pos]]
            ELSE evaluateFrom(p, tid, [t EXCEPT !.i = @ + 1])

evaluatePaperPositionsOnCandle(p, tid, hits) ==
  evaluateFrom(p, tid, [NoTask EXCEPT !.kind = "eval", !.hits = hits, !.i = 1])

\* persistTrade has answered an evaluation: closedTrades.push, toClose.push(i),
\* and the loop goes on
resumeEvaluate(p, tid) ==
  LET t == p.tasks[tid]
  IN evaluateFrom([p EXCEPT !.closedTrades[t.pos] = @ + 1], tid,
                  [t EXCEPT !.toClose = Append(@, t.i), !.i = @ + 1, !.pos = ""])

\* closePosition up to its await
closePosition(p, tid, posId) ==
  LET posIdx == findIndex(p.openPositions, posId)
  IN IF posIdx = 0 THEN p
     ELSE [p EXCEPT !.credited[posId] = @ + 1,
                    !.tasks[tid] = [NoTask EXCEPT !.kind = "manual", !.pos = posId,
                                                  !.posIdx = posIdx]]

\* persistTrade has answered a manual close: closedTrades.push and
\* openPositions.splice(posIdx, 1) with the index found before the await
resumeClose(p, tid) ==
  LET t == p.tasks[tid]
  IN [p EXCEPT !.closedTrades[t.pos] = @ + 1,
               !.openPositions = splice(@, t.posIdx),
               !.tasks[tid] = NoTask]

\* the click on Place Order: the position is pushed and evaluated on the
\* current candle at once
placeOrder(p, tid, pos, hits) ==
  evaluatePaperPositionsOnCandle(
    [p EXCEPT !.openPositions = Append(@, pos), !.placed = @ \cup {pos}], tid, hits)

\* ---------------- actions ----------------
FlatBars(n, price) == [i \in 1..n |-> Bar(i, price)]

\* the klines the upstream REST endpoint serves for a pair in the model
HistoryData(key) ==
  IF key[1] = "ETHUSDT" THEN FlatBars(19, 100) ELSE FlatBars(1, 100)

\* bar times the model feeds: up to MaxLiveBars periods past the bars served
\* by the history endpoint or held in the cache
MaxBarTime(key) ==
  Max(Len(HistoryData(key)), Len(currentCandles[key])) + MaxLiveBars

\* a request body's candle: absent, rejected by parseCandle, or a bar
Candle(t, c) == [present |-> TRUE, valid |-> TRUE, time |-> t, close |-> c]
NoCandle == [present |-> FALSE, valid |-> FALSE, time |-> 0, close |-> 0]
BadCandle == [present |-> TRUE, valid |-> FALSE, time |-> 0, close |-> 0]

\* what the last handler was, and the processCandle result it broadcast
Last(op, key, conn, meta, indicator) ==
  [op |-> op, key |-> key, conn |-> conn, indicator |-> indicator, out |-> NoOut,
   bar |-> NoBar, limit |-> 0]

\* the handler's result becomes the next state; the guards keep the model finite
Apply(w, l) ==
  /\ Len(w.metas) <= MaxFeederMetas
  /\ \A k \in Keys : w.live[k] <= MaxLiveBars
  /\ feeders' = w.feeders
  /\ feederMetas' = w.metas
  /\ currentCandles' = w.candles
  /\ indicatorInstances' = w.inst
  /\ users' = w.users
  /\ connections' = w.conns
  /\ now' = w.now
  /\ sent' = w.sent
  /\ last' = [l EXCEPT !.out = w.out]
  /\ liveBars' = w.live
  /\ UNCHANGED <<backtest, paper>>

MetaIds == 1..Len(feederMetas)

\* SIGINT / SIGTERM; the process then waits for server.close before it exits
Shutdown == Apply(shutdown(World), Last("shutdown", NoKey, "", 0, NoIndicator))

SockOpen(m) ==
  /\ feederMetas[m].ws /\ feederMetas[m].readyState = "CONNECTING"
  /\ Apply(OnOpen(World, m), Last("open", MetaKey(World, m), "", m, NoIndicator))

\* 'error' is emitted on a failed handshake and on a protocol or socket error
\* of an open connection; the socket is then closing and 'close' follows
SockError(m, jitter) ==
  /\ feederMetas[m].ws /\ feederMetas[m].readyState \in {"CONNECTING", "OPEN"}
  /\ Apply(OnCloseOrError(World, m, "CLOSING", jitter),
           Last("error", MetaKey(World, m), "", m, NoIndicator))

SockClose(m, jitter) ==
  /\ feederMetas[m].ws /\ feederMetas[m].readyState \in {"OPEN", "CLOSING"}
  /\ Apply(OnCloseOrError(World, m, "CLOSED", jitter),
           Last("close", MetaKey(World, m), "", m, NoIndicator))

TimerFire(m, jitter) ==
  /\ feederMetas[m].retryTimer
  /\ Apply(OnRetryTimer(World, m, jitter),
           Last("timer", MetaKey(World, m), "", m, NoIndicator))

FeedFault(m, kt, close, afterPush) ==
  /\ feederMetas[m].ws /\ feederMetas[m].readyState = "OPEN"
  /\ kt \div 1000 <= MaxBarTime(MetaKey(World, m))
  /\ Apply(OnFeedMessageFault(World, m, kt, close, afterPush),
           [Last("feed_fault", MetaKey(World, m), "", m, NoIndicator)
              EXCEPT !.bar = Bar(kt \div 1000, close)])

IngestFault(symbolIn, intervalIn, candle, afterPush) ==
  /\ candle.time <= MaxBarTime(keyFor(symbolIn, DefaultInterval(intervalIn)))
  /\ Apply(OnIngestFault(World, symbolIn, intervalIn, candle, afterPush),
           [Last("ingest_fault", keyFor(symbolIn, DefaultInterval(intervalIn)), "", 0,
                 NoIndicator)
              EXCEPT !.bar = Bar(candle.time, candle.close)])

FeedMessage(m, kt, close, isFinal) ==
  /\ feederMetas[m].ws /\ feederMetas[m].readyState = "OPEN"
  /\ kt \div 1000 <= MaxBarTime(MetaKey(World, m))
  /\ Apply(OnFeedMessage(World, m, kt, close, isFinal),
           [Last(IF kt = 0 THEN "feed_ignored"
                 ELSE IF isFinal THEN "feed_final" ELSE "feed_open",
                 MetaKey(World, m), "", m, NoIndicator)
              EXCEPT !.bar = Bar(kt \div 1000, close)])

Connect(c) ==
  /\ ~connections[c].inMap
  /\ Apply(OnConnection(World, c), Last("connection", NoKey, c, 0, NoIndicator))

\* the peer starts the closing handshake: readyState leaves OPEN before 'close'
\* the socket of an open connection gets into a state in which send() throws
SendBreaks(c) ==
  /\ connections[c].inMap /\ connections[c].readyState = "OPEN"
  /\ Apply([World EXCEPT !.conns[c].sendThrows = TRUE],
           Last("send_breaks", NoKey, c, 0, NoIndicator))

ClientClosing(c) ==
  /\ connections[c].inMap /\ connections[c].readyState = "OPEN"
  /\ Apply([World EXCEPT !.conns[c].readyState = "CLOSING"],
           Last("closing", NoKey, c, 0, NoIndicator))

ConnClose(c) ==
  /\ connections[c].inMap
  /\ Apply(OnConnClose(World, c), Last("conn_close", NoKey, c, 0, NoIndicator))

Auth(c, sessionIdIn, demoPremium) ==
  /\ connections[c].inMap /\ connections[c].readyState = "OPEN"
  /\ Apply(OnAuth(World, c, sessionIdIn, demoPremium),
           Last("auth", NoKey, c, 0, NoIndicator))

Subscribe(c, symbolIn, intervalIn, indicatorIn, jitter) ==
  /\ connections[c].inMap /\ connections[c].readyState = "OPEN"
  /\ Apply(OnSubscribe(World, c, symbolIn, intervalIn, indicatorIn, jitter),
           Last("subscribe", keyFor(DefaultSymbol(symbolIn), DefaultInterval(intervalIn)),
                c, 0, indicatorIn))

Unsubscribe(c, symbolIn, intervalIn, indicatorIn) ==
  /\ connections[c].inMap /\ connections[c].readyState = "OPEN"
  /\ Apply(OnUnsubscribe(World, c, symbolIn, intervalIn, indicatorIn),
           Last("unsubscribe", keyFor(DefaultSymbol(symbolIn), DefaultInterval(intervalIn)),
                c, 0, indicatorIn))

BadMessage(c, reason) ==
  /\ connections[c].inMap /\ connections[c].readyState = "OPEN"
  /\ Apply(OnBadMessage(World, c, reason), Last(reason, NoKey, c, 0, NoIndicator))

GetSnapshot(c, symbolIn, intervalIn, limitIn) ==
  /\ connections[c].inMap /\ connections[c].readyState = "OPEN"
  /\ Apply(OnGetSnapshot(World, c, symbolIn, intervalIn, limitIn),
           [Last("get_snapshot", keyFor(DefaultSymbol(symbolIn), DefaultInterval(intervalIn)),
                 c, 0, NoIndicator)
              EXCEPT !.limit = limitIn])

History(symbolIn, intervalIn, data, jitter) ==
  Apply(OnHistory(World, symbolIn, intervalIn, data, jitter),
        Last("history", keyFor(DefaultSymbol(symbolIn), DefaultInterval(intervalIn)),
             "", 0, NoIndicator))

Ingest(symbolIn, intervalIn, candle) ==
  /\ candle.time <= MaxBarTime(keyFor(symbolIn, DefaultInterval(intervalIn)))
  /\ Apply(OnIngest(World, symbolIn, intervalIn, candle),
           [Last(IF symbolIn = "" \/ ~candle.present \/ ~candle.valid
                   THEN "ingest_400" ELSE "ingest",
                 keyFor(symbolIn, DefaultInterval(intervalIn)), "", 0, NoIndicator)
              EXCEPT !.bar = Bar(candle.time, candle.close)])

Grant(sessionId, minutes) ==
  Apply(OnGrant(World, sessionId, minutes), Last("grant", NoKey, "", 0, NoIndicator))

Revoke(sessionId) ==
  Apply(OnRevoke(World, sessionId), Last("revoke", NoKey, "", 0, NoIndicator))

\* Date.now() advances, by TickMinutes at a time (now is in minutes)
TickMinutes == DEMO_PREMIUM_MINUTES
Tick ==
  /\ now + TickMinutes <= 1 + MaxTicks * TickMinutes
  /\ Apply([World EXCEPT !.now = now + TickMinutes],
           Last("tick", NoKey, "", 0, NoIndicator))

\* ---------------- initial state: the module has been loaded ----------------
EmptyWorld ==
  [feeders |-> [k \in Keys |-> 0], metas |-> <<>>,
   candles |-> [k \in Keys |-> <<>>], inst |-> [k \in Keys |-> NoInstance],
   users |-> [u \in Sessions |-> NoUser], conns |-> [c \in Conns |-> NoConnection],
   now |-> 1, sent |-> [c \in Conns |-> <<>>], out |-> NoOut,
   live |-> [k \in Keys |-> 0]]

\* server.js 894: startFeeder('BTCUSDT', '1m') at load, unless the url throws
LoadedWorld(jitter) == startFeeder(EmptyWorld, "BTCUSDT", "1m", jitter)

InitWorld(w) ==
  /\ feeders = w.feeders
  /\ feederMetas = w.metas
  /\ currentCandles = w.candles
  /\ indicatorInstances = w.inst
  /\ users = w.users
  /\ connections = w.conns
  /\ now = w.now
  /\ sent = w.sent
  /\ last = Last("load", NoKey, "", 0, NoIndicator)
  /\ liveBars = w.live
  /\ paper = NoPaper

InitFrom(w) == InitWorld(w) /\ backtest = NoBacktest

Init == InitFrom(LoadedWorld(0))

\* ---------------- the feeder under its socket events ----------------
NextFeeder ==
  \/ \E m \in MetaIds : SockOpen(m)
  \/ \E m \in MetaIds, j \in SomeJitter : SockError(m, j)
  \/ \E m \in MetaIds, j \in SomeJitter : SockClose(m, j)
  \/ \E m \in MetaIds, j \in SomeJitter : TimerFire(m, j)
  \/ \E m \in MetaIds, x \in BOOLEAN : FeedMessage(m, 2500, 100, x)
  \/ Connect("c1")
  \/ \E s \in {"btcusdt", ""}, j \in SomeJitter : Subscribe("c1", s, "1m", NoIndicator, j)

SpecFeeder == Init /\ [][NextFeeder]_vars

\* ---------------- the fan-out to the frontends ----------------
\* Connection c1 authenticates as session s1; c2 never authenticates and may
\* linger in the closing handshake.  The events come from POST /ingest on the
\* ETHUSDT pair, whose indicator is seeded from the history when GET /history
\* comes before the first subscribe.
NextFanout ==
  \/ \E c \in Conns : Connect(c)
  \/ ClientClosing("c2")
  \/ \E c \in Conns : ConnClose(c)
  \/ \E d \in BOOLEAN : Auth("c1", "s1", d)
  \/ \E i \in {NoIndicator, ALGO_INDICATOR}, j \in SomeJitter :
       Subscribe("c1", "ethusdt", "1m", i, j)
  \/ \E j \in SomeJitter : Subscribe("c2", "ETHUSDT", "", NoIndicator, j)
  \/ \E i \in {NoIndicator, ALGO_INDICATOR} : Unsubscribe("c1", "ethusdt", "", i)
  \/ Grant("s1", 0)
  \/ Revoke("s1")
  \/ Tick
  \/ \E j \in SomeJitter : History("ethusdt", "1m", HistoryData(keyFor("ethusdt", "1m")), j)
  \/ Ingest("ethusdt", "1m", Candle(20, 100))

SpecFanout == Init /\ [][NextFanout]_vars

\* ---------------- a pair whose socket cannot be constructed ----------------
\* a client subscribes to the symbol "a#b": every startFeeder for it throws
\* in new WebSocket and takes the catch branch (server.js 799-805)
NextBackoff ==
  \/ Connect("c1")
  \/ \E j \in JitterPermille : Subscribe("c1", "a#b", "1m", NoIndicator, j)
  \/ \E m \in MetaIds, j \in JitterPermille : TimerFire(m, j)
  \/ \E m \in MetaIds : SockOpen(m)

SpecBackoff == Init /\ [][NextBackoff]_vars

\* ---------------- feeder: state read by the claims ----------------
MetaKeyOf(m) == keyFor(feederMetas[m].symbol, feederMetas[m].interval)

\* upstream sockets of a pair that are connecting or open
LiveSockets(k) ==
  {m \in MetaIds : /\ MetaKeyOf(m) = k
                   /\ feederMetas[m].ws
                   /\ feederMetas[m].readyState \in {"CONNECTING", "OPEN"}}

\* sockets of a pair whose 'close' event is still to come
ClosingSockets(k) ==
  {m \in MetaIds : /\ MetaKeyOf(m) = k
                   /\ feederMetas[m].ws
                   /\ feederMetas[m].readyState = "CLOSING"}

\* reconnect timers of a pair that are set and have not fired
PendingTimers(k) == {m \in MetaIds : MetaKeyOf(m) = k /\ feederMetas[m].retryTimer}

Started(k) == \E m \in MetaIds : MetaKeyOf(m) = k

\* the registry holds a connector of the pair that is Connected or Connecting
ConnectorLive(k) ==
  /\ feeders[k] # 0
  /\ feederMetas[feeders[k]].ws
  /\ feederMetas[feeders[k]].readyState \in {"CONNECTING", "OPEN"}

\* C1: at every moment each pair has at most one live upstream connection
\* (connecting or open), under any interleaving of startFeeder calls with the
\* socket's open, error and close events.
C1_OneLiveConnection == \A k \in Keys : Cardinality(LiveSockets(k)) <= 1

\* C2: no failure leaves a started pair without a connector and without a
\* pending retry: it always has a live socket, a socket whose close handler is
\* still to run, or a pending reconnect timer.
C2_RetryNeverLost ==
  \A k \in Keys :
    Started(k) => LiveSockets(k) \cup ClosingSockets(k) \cup PendingTimers(k) # {}

\* C3: every scheduled reconnect delay d_i satisfies
\* B <= d_i <= min(round(d_{i-1}*1.8)*1.3, M), so no delay exceeds M.
C3_DelayWithinBounds ==
  \A m \in MetaIds :
    feederMetas[m].retryTimer =>
      /\ FEEDER_BASE_RETRY_MS <= feederMetas[m].reconnectMs
      /\ 10 * feederMetas[m].reconnectMs <= 13 * RoundDiv(feederMetas[m].prevMs * 18, 10)
      /\ feederMetas[m].reconnectMs <= FEEDER_MAX_RETRY_MS

\* C4: at any time at most one reconnect timer is pending per pair.
C4_OnePendingTimer == \A k \in Keys : Cardinality(PendingTimers(k)) <= 1

\* a step in which startFeeder began a new connection attempt for pair k
NewAttempt(k) ==
  /\ Len(feederMetas') = Len(feederMetas) + 1
  /\ feederMetas'[Len(feederMetas')].ws
  /\ keyFor(feederMetas'[Len(feederMetas')].symbol,
            feederMetas'[Len(feederMetas')].interval) = k

\* C5: a startFeeder call that begins a new connection attempt cancels the
\* pair's pending reconnect timer: after it no reconnect timer of the pair is
\* left to fire.
C5_StartCancelsTimer ==
  [][\A k \in Keys :
       NewAttempt(k) =>
         \A m \in 1..Len(feederMetas') :
           keyFor(feederMetas'[m].symbol, feederMetas'[m].interval) = k
             => ~feederMetas'[m].retryTimer]_vars

\* C6: startFeeder on a pair whose registered connector is Connected or
\* Connecting is a no-op: the calls made by a subscribe and by a reconnect
\* timer open no socket and leave the feeders registry, the candle cache and
\* the indicator state unchanged.
C6_StartFeederNoOp ==
  [][\A k \in Keys :
       (last'.op \in {"subscribe", "timer"} /\ last'.key = k /\ ConnectorLive(k))
         => /\ Len(feederMetas') = Len(feederMetas)
            /\ \A m \in MetaIds : feederMetas'[m].readyState = feederMetas[m].readyState
            /\ feeders' = feeders
            /\ currentCandles' = currentCandles
            /\ indicatorInstances' = indicatorInstances]_vars

\* C6 witness: a subscribe has called startFeeder for a pair whose connector
\* is open and whose cache and indicator state are not empty
C6_Witness ==
  /\ last.op = "subscribe"
  /\ feeders[last.key] # 0
  /\ feederMetas[feeders[last.key]].readyState = "OPEN"
  /\ currentCandles[last.key] # <<>>
  /\ indicatorInstances[last.key].closes # <<>>

\* ---------------- fan-out: state read by the claims ----------------
\* the session of connection c holds an entitlement that has not expired
EntitlementActive(c) ==
  /\ connections[c].sessionId \in Sessions
  /\ users[connections[c].sessionId].known
  /\ users[connections[c].sessionId].premiumUntil > now

ExactSub(k) == createSubKey(k, ALGO_INDICATOR)
WildSub(k) == createSubKey(k, NoIndicator)

\* how many messages of a type (and reason) a handler sent to a connection
NumSent(msgs, type, reason) ==
  Cardinality({i \in DOMAIN msgs : msgs[i].type = type /\ msgs[i].reason = reason})

\* C7: a connection that holds the indicator subscription and whose
\* entitlement is no longer active gets exactly one premium_expired and no
\* data on the next indicator event of the pair, and the subscription is
\* revoked; an indicator event sends nothing (data or error) to a connection
\* that holds no matching subscription; and a revoked subscription comes back
\* only by a subscribe of that connection.
C7_LazyEviction ==
  [][\A c \in Conns :
       /\ ( /\ last'.out.ready
            /\ connections[c].inMap /\ connections[c].readyState = "OPEN"
            /\ ExactSub(last'.key) \in connections[c].subscriptions
            /\ ~EntitlementActive(c) )
          => /\ NumSent(sent'[c], "error", "premium_expired") = 1
             /\ NumSent(sent'[c], "indicator_update", "") = 0
             /\ ExactSub(last'.key) \notin connections'[c].subscriptions
       /\ ( /\ last'.out.ready
            /\ ExactSub(last'.key) \notin connections[c].subscriptions
            /\ WildSub(last'.key) \notin connections[c].subscriptions )
          => /\ NumSent(sent'[c], "error", "premium_expired") = 0
             /\ NumSent(sent'[c], "indicator_update", "") = 0
       /\ \A k \in Keys :
            ( /\ ExactSub(k) \notin connections[c].subscriptions
              /\ ExactSub(k) \in connections'[c].subscriptions )
            => last'.op = "subscribe" /\ last'.conn = c /\ last'.key = k]_vars

\* C7 witness: an indicator event has just sent premium_expired to c1, whose
\* session's entitlement ran out with the clock, and c1 holds no subscription
\* of the pair any more
C7_Witness ==
  /\ last.out.ready
  /\ NumSent(sent["c1"], "error", "premium_expired") = 1
  /\ connections["c1"].sessionId = "s1"
  /\ users["s1"].premiumUntil # 0 /\ users["s1"].premiumUntil <= now
  /\ ExactSub(last.key) \notin connections["c1"].subscriptions
  /\ WildSub(last.key) \notin connections["c1"].subscriptions

\* C8: an indicator_update for (pair, indicator) is sent to a connection only
\* if it holds a subscription for (pair, indicator) or the wildcard (pair, no
\* indicator), and only if its session's entitlement is active at delivery.
C8_IndicatorOnlyToEntitled ==
  \A c \in Conns : \A i \in DOMAIN sent[c] :
    sent[c][i].type = "indicator_update" =>
      /\ connections[c].inMap
      /\ \/ createSubKey(sent[c][i].key, sent[c][i].indicator) \in connections[c].subscriptions
         \/ WildSub(sent[c][i].key) \in connections[c].subscriptions
      /\ EntitlementActive(c)

\* C8 witness: c1 got an indicator_update through its wildcard subscription
\* alone, while c2, subscribed to the same wildcard without a session, got none
C8_Witness ==
  /\ NumSent(sent["c1"], "indicator_update", "") = 1
  /\ ExactSub(last.key) \notin connections["c1"].subscriptions
  /\ connections["c2"].inMap /\ connections["c2"].readyState = "OPEN"
  /\ WildSub(last.key) \in connections["c2"].subscriptions
  /\ NumSent(sent["c2"], "indicator_update", "") = 0

\* C9: a subscribe that names an indicator while the session's entitlement is
\* not active answers indicator_requires_premium and leaves the connection's
\* subscriptions unchanged; otherwise the subscription is recorded.
C9_SubscribeGated ==
  [][\A c \in Conns :
       (last'.op = "subscribe" /\ last'.conn = c) =>
         IF last'.indicator # NoIndicator /\ ~EntitlementActive(c)
           THEN /\ sent'[c] = <<ErrorMsg("indicator_requires_premium")>>
                /\ connections'[c].subscriptions = connections[c].subscriptions
           ELSE /\ connections'[c].subscriptions =
                     connections[c].subscriptions
                       \cup {createSubKey(last'.key, last'.indicator)}
                /\ NumSent(sent'[c], "error", "indicator_requires_premium") = 0]_vars

\* C9 witness: a subscribe naming the indicator was refused for a session
\* whose entitlement had expired, and recorded nothing
C9_Witness ==
  /\ last.op = "subscribe" /\ last.conn = "c1" /\ last.indicator = ALGO_INDICATOR
  /\ sent["c1"] = <<ErrorMsg("indicator_requires_premium")>>
  /\ connections["c1"].sessionId = "s1"
  /\ users["s1"].premiumUntil # 0 /\ users["s1"].premiumUntil <= now
  /\ connections["c1"].subscriptions = {}

\* the last handler merged a bar into the cache and broadcast candles_update
BarBroadcast == last.op \in {"ingest", "feed_final", "feed_open"}

\* C10: candles_update and signal events go to every connection that is open,
\* whatever its entitlement and its subscriptions.
C10_BroadcastToAll ==
  \A c \in Conns :
    (connections[c].inMap /\ connections[c].readyState = "OPEN") =>
      /\ BarBroadcast => NumSent(sent[c], "candles_update", "") = 1
      /\ last.out.signal # NoSignal => NumSent(sent[c], "signal", "") = 1

\* C10 witness: a bar produced a signal, and both the unauthenticated c2, which
\* holds no subscription, and c1, whose entitlement is not active, got the
\* candles_update and the signal
C10_Witness ==
  /\ BarBroadcast /\ last.out.signal # NoSignal
  /\ connections["c2"].inMap /\ connections["c2"].readyState = "OPEN"
  /\ connections["c2"].sessionId = NoSession /\ connections["c2"].subscriptions = {}
  /\ NumSent(sent["c2"], "signal", "") = 1
  /\ NumSent(sent["c2"], "candles_update", "") = 1
  /\ connections["c1"].inMap /\ ~EntitlementActive("c1")
  /\ NumSent(sent["c1"], "signal", "") = 1

\* ---------------- bars into the cache and the indicator ----------------
\* The BTCUSDT feeder of the load, with c1 holding a demo entitlement and the
\* indicator subscription, and the ETHUSDT pair fed by POST /ingest alone.
FeedTimes == {2000, 3000}
\* the limit of a get_snapshot: negative, absent, small, above the server's cap
SnapshotLimits == {0 - 1, 0, 1, 1500}

NextBars ==
  \/ \E m \in MetaIds : SockOpen(m)
  \/ Connect("c1")
  \/ Auth("c1", "s1", TRUE)
  \/ \E j \in SomeJitter : Subscribe("c1", "btcusdt", "1m", ALGO_INDICATOR, j)
  \/ \E m \in MetaIds, kt \in FeedTimes, x \in BOOLEAN : FeedMessage(m, kt, 100, x)
  \/ \E t \in {19, 20} : Ingest("ethusdt", "1m", Candle(t, 100))
  \/ \E sym \in {"ethusdt", ""}, limit \in SnapshotLimits :
       GetSnapshot("c1", sym, "1m", limit)

SpecBars == Init /\ [][NextBars]_vars

StrictlyIncreasing(s) == \A i \in 1..(Len(s) - 1) : s[i] < s[i + 1]

MsgsOfType(msgs, type) == {i \in DOMAIN msgs : msgs[i].type = type}

\* C12: every feed bar is merged into the cache and broadcast as one
\* candles_update; the engine runs, and indicator_update and signal are
\* broadcast, only for a final bar; a non-final bar leaves the indicator state
\* unchanged and produces no indicator_update and no signal.
C12_EngineOnlyOnFinal ==
  [][\A k \in Keys :
       (last'.op \in {"feed_open", "feed_final"} /\ last'.key = k) =>
         /\ currentCandles'[k] # <<>>
         /\ currentCandles'[k][Len(currentCandles'[k])] = last'.bar
         /\ \A c \in Conns :
              (connections[c].inMap /\ connections[c].readyState = "OPEN") =>
                /\ Cardinality(MsgsOfType(sent'[c], "candles_update")) = 1
                /\ \A i \in MsgsOfType(sent'[c], "candles_update") :
                     /\ sent'[c][i].time = last'.bar.time
                     /\ sent'[c][i].close = last'.bar.close
                     /\ sent'[c][i].isFinal = (last'.op = "feed_final")
         /\ last'.op = "feed_open" =>
              /\ indicatorInstances'[k] = indicatorInstances[k]
              /\ \A c \in Conns :
                   /\ MsgsOfType(sent'[c], "indicator_update") = {}
                   /\ MsgsOfType(sent'[c], "signal") = {}
         /\ last'.op = "feed_final" =>
              /\ indicatorInstances'[k].closes =
                   Append(indicatorInstances[k].closes, last'.bar.close)
              /\ last'.out.ready /\ last'.out.time = last'.bar.time
              /\ \A c \in Conns :
                   ( /\ connections[c].inMap /\ connections[c].readyState = "OPEN"
                     /\ createSubKey(k, ALGO_INDICATOR) \in connections[c].subscriptions
                     /\ isPremium(World, connections[c].sessionId) )
                   => Cardinality(MsgsOfType(sent'[c], "indicator_update")) = 1
              /\ \A c \in Conns :
                   (connections[c].inMap /\ connections[c].readyState = "OPEN") =>
                     (last'.out.signal # NoSignal
                        <=> MsgsOfType(sent'[c], "signal") # {})]_vars

\* C12 witness: a non-final bar reached c1, subscribed and entitled, as a
\* candles_update alone, for a pair whose indicator had already processed bars
C12_Witness ==
  /\ last.op = "feed_open"
  /\ indicatorInstances[last.key].closes # <<>>
  /\ connections["c1"].inMap
  /\ createSubKey(last.key, ALGO_INDICATOR) \in connections["c1"].subscriptions
  /\ isPremium(World, connections["c1"].sessionId)
  /\ Len(sent["c1"]) = 1 /\ sent["c1"][1].type = "candles_update"

\* ---------------- a cache at its capacity ----------------
\* The BTCUSDT pair after its socket opened, GET /history cached
\* MAX_SEED_CANDLES bars and the feed delivered non-final bars of later
\* periods until the cache holds one bar less than MAX_CANDLES_CACHE.
NearFullWorld ==
  [OnOpen(LoadedWorld(0), 1)
     EXCEPT !.candles[keyFor("BTCUSDT", "1m")] = FlatBars(MAX_CANDLES_CACHE - 1, 100)]

InitCache == InitFrom(NearFullWorld)

\* feed times in ms: the last cached period, the two after it, an old one
CacheFeedTimes == {1999000, 2000000, 2001000, 5000}

NextCache ==
  \/ \E m \in MetaIds, kt \in CacheFeedTimes, x \in BOOLEAN : FeedMessage(m, kt, 110, x)
  \/ \E t \in {1999, 2000, 2001} : Ingest("btcusdt", "1m", Candle(t, 100))
  \/ \E j \in SomeJitter : History("btcusdt", "1m", HistoryData(keyFor("btcusdt", "1m")), j)

SpecCache == InitCache /\ [][NextCache]_vars

\* the last handler merged a bar into the cache of its pair
MergedBar == last.op \in {"feed_open", "feed_final", "ingest"}

\* C13: after any sequence of merges (feed messages, /ingest calls, history
\* seeding) a pair's cache never holds more than MAX_CANDLES_CACHE bars.
C13_CacheWithinCapacity ==
  \A k \in Keys : Len(currentCandles[k]) <= MAX_CANDLES_CACHE

\* C13 witness: a feed bar of a new period was merged into a full cache, which
\* is still full and has lost its oldest bar
C13_Witness ==
  /\ last.op \in {"feed_open", "feed_final"}
  /\ Len(currentCandles[last.key]) = MAX_CANDLES_CACHE
  /\ currentCandles[last.key][1].time = 2
  /\ currentCandles[last.key][MAX_CANDLES_CACHE] = last.bar

\* C14: after any sequence of merges, for any order of incoming bar times, the
\* cached bars are in time-ascending order and no two share a time.
C14_CacheAscendingUnique ==
  \A k \in Keys :
    \A i \in 1..(Len(currentCandles[k]) - 1) :
      currentCandles[k][i].time < currentCandles[k][i + 1].time

\* C15: merge replaces the last bar in place when it has the bar's time, the
\* length and all earlier bars unchanged; otherwise it appends the bar and, if
\* the capacity is then exceeded, evicts exactly the oldest bar.
C15_MergeContract ==
  [][\A k \in Keys :
       (last'.op \in {"feed_open", "feed_final", "ingest"} /\ last'.key = k) =>
         LET old == currentCandles[k]
             new == currentCandles'[k]
             bar == last'.bar
         IN IF Len(old) > 0 /\ old[Len(old)].time = bar.time
              THEN /\ Len(new) = Len(old)
                   /\ new[Len(new)] = bar
                   /\ \A i \in 1..(Len(old) - 1) : new[i] = old[i]
              ELSE IF Len(old) < MAX_CANDLES_CACHE
                THEN new = Append(old, bar)
                ELSE new = Append(Tail(old), bar)]_vars

\* C15 witness: POST /ingest appended a bar of a new period to a full cache:
\* the cache is full, starts at what was its second bar and ends with the bar
C15_Witness ==
  /\ last.op = "ingest"
  /\ Len(currentCandles[last.key]) = MAX_CANDLES_CACHE
  /\ currentCandles[last.key][1].time = 2
  /\ currentCandles[last.key][MAX_CANDLES_CACHE] = last.bar
  /\ currentCandles[last.key][MAX_CANDLES_CACHE - 1].time # last.bar.time

\* ---------------- the indicator engine, bar by bar ----------------
\* The ETHUSDT indicator as GET /history and the startFeeder it calls leave it:
\* seeded from the served bars, either 29 flat bars or a step 100, 110, 110, ...
StepBars(n) == [i \in 1..n |-> Bar(i, IF i = 1 THEN 100 ELSE 110)]
\* ... or 14 bars rising by one up to 99
RampBars(n) == [i \in 1..n |-> Bar(i, 99 - n + i)]
SeedSeries == {FlatBars(29, 100), StepBars(13), RampBars(14)}
EngineKey == keyFor("ETHUSDT", "1m")

InitEngine ==
  \E data \in SeedSeries :
    InitFrom(OnHistory(LoadedWorld(0), "ethusdt", "1m", data, 150))

\* instance.processCandle(candle) on the bar of the next period
OnBar(close) ==
  LET inst == indicatorInstances[EngineKey]
      candle == Bar(inst.times[Len(inst.times)] + 1, close)
      res == processCandle(inst, candle)
  IN /\ liveBars[EngineKey] < MaxSeriesBars
     /\ indicatorInstances' = [indicatorInstances EXCEPT ![EngineKey] = res.inst]
     /\ last' = [Last("onBar", EngineKey, "", 0, NoIndicator)
                   EXCEPT !.out = res.out, !.bar = candle]
     /\ liveBars' = [liveBars EXCEPT ![EngineKey] = @ + 1]
     /\ sent' = [c \in Conns |-> <<>>]
     /\ UNCHANGED <<feeders, feederMetas, currentCandles, users, connections, now,
                    backtest, paper>>

NextEngine == \E close \in Prices : OnBar(close)

SpecEngine == InitEngine /\ [][NextEngine]_vars

\* the closes buffered by the engine after its last call
EngineCloses == indicatorInstances[EngineKey].closes

\* SMA(10) crosses above SMA(30) between the last two bars: with S10 and S30
\* the window sums, S10/10 <= S30/30 on the prior bar and S10/10 > S30/30 now
SmaCrossesAbove(closes) ==
  LET L == Len(closes)
  IN /\ L >= 31
     /\ 3 * SumRange(closes, L - 10, L - 1) <= SumRange(closes, L - 30, L - 1)
     /\ 3 * SumRange(closes, L - 9, L) > SumRange(closes, L - 29, L)

\* C17: given at least 31 bars, the signal surfaced by onBar is a buy exactly
\* on the bar where SMA(10) crosses above SMA(30) (a series ramping from below
\* to above the cross gets its buy on the crossing bar and on no other bar).
C17_BuyExactlyOnSmaCross ==
  (last.op = "onBar" /\ Len(EngineCloses) >= 31) =>
    (last.out.signal.side = "buy" <=> SmaCrossesAbove(EngineCloses))

\* C18: the signal surfaced is that of the last qualifying rule in the order
\* SMA, EMA, RSI, Bollinger; with one qualifying rule it is that rule's
\* signal, with none the snapshot has no signal.
C18_LastQualifyingRuleWins ==
  last.op = "onBar" =>
    last.out.signal =
      (IF BollRule(EngineCloses) # NoSignal THEN BollRule(EngineCloses)
       ELSE IF RsiRule(EngineCloses) # NoSignal THEN RsiRule(EngineCloses)
       ELSE IF EmaRule(EngineCloses) # NoSignal THEN EmaRule(EngineCloses)
       ELSE SmaRule(EngineCloses))

\* C18 witness: on one bar the SMA rule says buy and the Bollinger rule says
\* sell, and the sell of the Bollinger rule is surfaced
C18_Witness ==
  /\ last.op = "onBar"
  /\ SmaRule(EngineCloses) = Signal("buy", "sma_cross")
  /\ BollRule(EngineCloses) = Signal("sell", "boll_upper")
  /\ last.out.signal = Signal("sell", "boll_upper")

\* two (gains, losses) pairs give the same 100 - 100/(1 + gains/(losses || 1e-9))
RsiSame(a, b) ==
  IF a.losses > 0 /\ b.losses > 0 THEN a.gains * b.losses = b.gains * a.losses
  ELSE IF a.losses = 0 /\ b.losses = 0 THEN a.gains = b.gains
  ELSE a.gains = 0 /\ b.gains = 0

\* C19: RSI(14) is taken over the last 14 close-to-close deltas of the buffer
\* and is null exactly when the buffer holds at most 14 closes.
C19_RsiOverFourteenDeltas ==
  last.op = "onBar" =>
    LET L == Len(EngineCloses)
    IN IF L <= 14 THEN ~last.out.rsi.ok
       ELSE /\ last.out.rsi.ok
            /\ RsiSame(last.out.rsi,
                       [gains |-> GainsRange(EngineCloses, L - 13, L),
                        losses |-> LossesRange(EngineCloses, L - 13, L)])

\* the most recent n bars of a cache, oldest first
MostRecent(arr, n) ==
  IF n <= 0 THEN <<>>
  ELSE IF n >= Len(arr) THEN arr
  ELSE SubSeq(arr, Len(arr) - n + 1, Len(arr))

\* C16: get_snapshot answers, for every limit the request may carry, with the
\* most recent `limit` cached bars, oldest first and never more than the
\* capacity; for a pair with no cache it answers with an empty sequence and
\* no error.  (A request without a limit gets the most recent bars up to the
\* server's default.)
C16_SnapshotMostRecent ==
  last.op = "get_snapshot" =>
    /\ Len(sent[last.conn]) = 1
    /\ sent[last.conn][1].type = "snapshot"
    /\ Len(sent[last.conn][1].data) <= MAX_CANDLES_CACHE
    /\ sent[last.conn][1].data =
         MostRecent(currentCandles[last.key],
                    IF last.limit = 0 THEN SNAPSHOT_DEFAULT_LIMIT ELSE last.limit)

\* ---------------- backtest runs ----------------
BacktestPrices == {100, 110, 120}

RECURSIVE SeriesOver(_, _, _)
\* the sequences of n bars at times from + 1 .. from + n with closes in
\* BacktestPrices, each bar opening at the close of the bar before it
SeriesOver(n, from, open) ==
  IF n = 0 THEN {<<>>}
  ELSE UNION {{<<BarO(from + 1, open, c)>> \o rest : rest \in SeriesOver(n - 1, from + 1, c)} :
                c \in BacktestPrices}

\* archived bars: BT_SMA_LONG flat bars followed by MaxBacktestBars bars
BacktestSeries ==
  {FlatBars(BT_SMA_LONG, 100) \o tail :
     tail \in SeriesOver(MaxBacktestBars, BT_SMA_LONG, 100)}

\* the answers of the klines endpoint: the series above and one a bar short of
\* the least the run accepts
BacktestData == BacktestSeries \cup {FlatBars(BT_MIN_BARS - 1, 100)}

\* the default request; short windows, which cross several times in the tail;
\* the rsi strategy on a short period; a run that puts all its cash in
BacktestBodies ==
  {EmptyBody,
   [EmptyBody EXCEPT !.sma_short = 2, !.sma_long = 3],
   [EmptyBody EXCEPT !.strategy = "rsi", !.rsi_period = 2],
   [EmptyBody EXCEPT !.sma_short = 2, !.sma_long = 3, !.size_e4 = E4,
                     !.initial_capital = 1000]}

\* a request has arrived and its fetch has been answered
InitBacktest ==
  /\ InitWorld(LoadedWorld(0))
  /\ \E body \in BacktestBodies, data \in BacktestData :
       backtest = [NoBacktest EXCEPT !.body = body, !.data = data]

\* the handler runs on the request
Backtest ==
  /\ backtest.status = 0
  /\ backtest' = OnBacktest(World, backtest.body, backtest.data)
  /\ last' = Last("backtest",
                  keyFor(DefaultSymbol(backtest.body.symbol),
                         DefaultInterval(backtest.body.interval)),
                  "", 0, NoIndicator)
  /\ sent' = [c \in Conns |-> <<>>]
  /\ UNCHANGED <<feeders, feederMetas, currentCandles, indicatorInstances, users,
                 connections, now, liveBars, paper>>

NextBacktest == Backtest

\* mutant: the answer to a repeated request carries the server's clock
Rerun_StampsClock ==
  /\ backtest.status # 0
  /\ backtest' = [OnBacktest(World, backtest.body, backtest.data)
                   EXCEPT !.finalEquity = @ + now]
  /\ last' = Last("backtest",
                  keyFor(DefaultSymbol(backtest.body.symbol),
                         DefaultInterval(backtest.body.interval)),
                  "", 0, NoIndicator)
  /\ sent' = [c \in Conns |-> <<>>]
  /\ UNCHANGED <<feeders, feederMetas, currentCandles, indicatorInstances, users,
                 connections, now, liveBars, paper>>

\* the same request arrives again and the klines endpoint answers as before
Rerun ==
  /\ backtest.status # 0
  /\ backtest' = OnBacktest(World, backtest.body, backtest.data)
  /\ last' = Last("backtest",
                  keyFor(DefaultSymbol(backtest.body.symbol),
                         DefaultInterval(backtest.body.interval)),
                  "", 0, NoIndicator)
  /\ sent' = [c \in Conns |-> <<>>]
  /\ UNCHANGED <<feeders, feederMetas, currentCandles, indicatorInstances, users,
                 connections, now, liveBars, paper>>

SpecBacktest == InitBacktest /\ [][NextBacktest]_vars

\* C20: exactly one position is open at a time: a buy opens a position only
\* when none is open, a sell only closes an open long, the position quantity is
\* never negative, and the trades alternate buy, sell, buy, ... from a buy.
C20_PositionDiscipline ==
  /\ \A i \in DOMAIN backtest.walk :
       LET b == backtest.walk[i]
           tradesBefore == IF i = 1 THEN 0 ELSE backtest.walk[i - 1].trades
       IN /\ b.before >= 0 /\ b.after >= 0
          /\ IF b.before = 0 /\ b.signal = "buy"
               THEN b.after > 0 /\ b.trades = tradesBefore + 1
             ELSE IF b.before > 0 /\ b.signal = "sell"
               THEN b.after = 0 /\ b.trades = tradesBefore + 1
             ELSE b.after = b.before /\ b.trades = tradesBefore
  /\ \A i \in DOMAIN backtest.trades :
       backtest.trades[i].side = (IF i % 2 = 1 THEN "buy" ELSE "sell")
  /\ \A i \in DOMAIN backtest.trades : backtest.trades[i].qty > 0

\* C20 witness: a run that bought, met a second buy signal while long and
\* ignored it, and sold on a sell signal
C20_Witness ==
  /\ backtest.status = 200
  /\ Len(backtest.trades) >= 2
  /\ backtest.trades[2].note = "sma_sell"
  /\ \E i \in DOMAIN backtest.walk :
       /\ backtest.walk[i].signal = "buy"
       /\ backtest.walk[i].before > 0
       /\ backtest.walk[i].after = backtest.walk[i].before

\* the fill price of the specification, in hundredths:
\* open * (1 +- slippage_bps / 10000) * (1 +- commission_pct)
FillPrice(open, cfg, sign) ==
  MulDiv(MulDiv(open * CashScale, E4 + sign * cfg.slippageBps, E4),
         E4 + sign * cfg.commissionE4, E4)

BacktestCfg == BacktestConfig(backtest.body)

\* C21: a buy signal at index i fills at bars[i+1].open * (1 + slippage_bps/10000)
\* * (1 + commission_pct) with quantity (cash * size_pct) / fillPrice; a sell
\* signal at index i closes at bars[i+1].open * (1 - slippage_bps/10000) *
\* (1 - commission_pct) with realized PnL = qty * (exitPrice - entryPrice); with
\* open = 100, slippage_bps = 5 and commission_pct = 0.0005 the buy fill is 100.10.
C21_ExecutionPrice ==
  \A k \in DOMAIN backtest.walk :
    LET b == backtest.walk[k]
        nextBar == backtest.arr[b.i + 2]
        t == backtest.trades[b.trades]
    IN /\ (b.signal = "buy" /\ b.before = 0) =>
            /\ t.side = "buy" /\ t.ts = nextBar.time
            /\ t.entry_price = FillPrice(nextBar.open, BacktestCfg, 1)
            /\ t.qty = MulDiv(MulDiv(b.cash, BacktestCfg.sizeE4, E4), QtyScale, t.entry_price)
            /\ (nextBar.open = 100 /\ BacktestCfg.slippageBps = 5
                  /\ BacktestCfg.commissionE4 = 5) => t.entry_price = 10010
       /\ (b.signal = "sell" /\ b.before > 0) =>
            /\ t.side = "sell" /\ t.ts = nextBar.time
            /\ t.exit_price = FillPrice(nextBar.open, BacktestCfg, 0 - 1)
            /\ t.qty = b.before
            /\ t.pnl = MulDiv(t.qty,
                              t.exit_price - backtest.trades[b.trades - 1].entry_price,
                              QtyScale)

\* C21 witness: a run that bought at an open of 100 under the default costs
\* and sold on a signal with a nonzero PnL
C21_Witness ==
  /\ backtest.status = 200
  /\ \E k \in DOMAIN backtest.walk :
       /\ backtest.walk[k].signal = "buy" /\ backtest.walk[k].before = 0
       /\ backtest.trades[backtest.walk[k].trades].entry_price = 10010
  /\ \E k \in DOMAIN backtest.walk :
       /\ backtest.walk[k].signal = "sell" /\ backtest.walk[k].before > 0
       /\ backtest.trades[backtest.walk[k].trades].pnl # 0

ExitTrades == {i \in DOMAIN backtest.trades : backtest.trades[i].note = "exit_on_finish"}

\* the position left by the walk over the bars
PositionAfterWalk ==
  IF backtest.walk = <<>> THEN 0 ELSE backtest.walk[Len(backtest.walk)].after

\* C22: a position that remains open after the walk is closed by exactly one
\* final sell trade with note exit_on_finish at the last bar's close adjusted
\* for slippage and commission; every run ends flat and every buy trade is
\* followed by a sell trade.
C22_ExitOnFinish ==
  backtest.status = 200 =>
    LET n == Len(backtest.trades)
        lastBar == backtest.arr[Len(backtest.arr)]
    IN /\ backtest.position = 0
       /\ \A i \in DOMAIN backtest.trades :
            backtest.trades[i].side = "buy" =>
              i < n /\ backtest.trades[i + 1].side = "sell"
       /\ IF PositionAfterWalk > 0
            THEN /\ ExitTrades = {n}
                 /\ backtest.trades[n].side = "sell"
                 /\ backtest.trades[n].ts = lastBar.time
                 /\ backtest.trades[n].qty = PositionAfterWalk
                 /\ backtest.trades[n].exit_price = FillPrice(lastBar.close, BacktestCfg, 0 - 1)
            ELSE ExitTrades = {}

\* C22 witness: a run whose walk ended long and was closed at a last bar that
\* closed away from its open
C22_Witness ==
  /\ backtest.status = 200
  /\ PositionAfterWalk > 0
  /\ ExitTrades # {}
  /\ backtest.arr[Len(backtest.arr)].close # backtest.arr[Len(backtest.arr)].open

\* C23: a backtest given fewer than 30 bars fails with the typed error
\* insufficient_data (a 400-style failure) and returns no metrics, trades or equity.
C23_InsufficientData ==
  (backtest.status # 0 /\ Len(backtest.data) < 30) =>
    /\ backtest.status = 400
    /\ backtest.error = "insufficient_data"
    /\ backtest.trades = <<>> /\ backtest.equity = <<>>

\* ---------------- repeated backtest requests ----------------
\* the series whose bars after the flat ones stay at 110 until the last three
RerunSeries ==
  {d \in BacktestData :
     \A i \in (BT_SMA_LONG + 1)..(Len(d) - 3) : d[i].close = 110}

InitRerun ==
  /\ InitWorld(LoadedWorld(0))
  /\ \E body \in BacktestBodies, data \in RerunSeries :
       backtest = [NoBacktest EXCEPT !.body = body, !.data = data]

\* between two runs of a request the clock advances, a frontend connects and
\* the pair's own cache and engine take a bar
NextRerun ==
  \/ Backtest
  \/ Rerun
  \/ Tick
  \/ Connect("c1")
  \/ Ingest("btcusdt", "1m", Candle(1, 110))

SpecRerun == InitRerun /\ [][NextRerun]_vars

StepBase == [i \in 1..BT_SMA_LONG |-> Bar(i, IF i = 1 THEN 100 ELSE 110)]

EquivSeries ==
  {base \o tail : base \in {FlatBars(BT_SMA_LONG, 110), StepBase},
                  tail \in SeriesOver(MaxEquivBars, BT_SMA_LONG, 110)}

\* the two strategies with the windows, period and thresholds of the live engine
EquivBodies == {EmptyBody, [EmptyBody EXCEPT !.strategy = "rsi"]}

InitEquiv ==
  /\ InitWorld(LoadedWorld(0))
  /\ \E body \in EquivBodies, data \in EquivSeries :
       backtest = [NoBacktest EXCEPT !.body = body, !.data = data]

NextEquiv == Backtest

SpecEquiv == InitEquiv /\ [][NextEquiv]_vars

RECURSIVE EngineAfter(_, _)
\* the live engine after it has processed bars[1..n] in order
EngineAfter(bars, n) ==
  IF n = 0 THEN NewAruAlgo
  ELSE LET before == EngineAfter(bars, n - 1)
       IN IF before.exists THEN _pushCandle(before, bars[n]) ELSE before

\* a live rule's outcome in the words of the backtest
SideOf(signal) == IF signal = NoSignal THEN "null" ELSE signal.side

\* C25: for strategy sma with windows 10/30, at every walked index i the
\* backtest derives buy (sell) exactly when the live detector's SMA-cross rule
\* qualifies as buy (sell) after the engine has processed bars 0..i in order.
C25_SmaSameAsLive ==
  (backtest.status = 200 /\ backtest.strategy = "sma") =>
    \A k \in DOMAIN backtest.walk :
      backtest.walk[k].signal =
        SideOf(SmaRule(EngineAfter(backtest.arr, backtest.walk[k].i + 1).closes))

\* C25 witness: an sma run whose walk derived a buy at one bar and a sell at another
C25_Witness ==
  /\ backtest.status = 200 /\ backtest.strategy = "sma"
  /\ \E k \in DOMAIN backtest.walk : backtest.walk[k].signal = "buy"
  /\ \E k \in DOMAIN backtest.walk : backtest.walk[k].signal = "sell"

\* C26: for strategy rsi with period 14 and thresholds 30/70, at every walked
\* index i the backtest's RSI value and its derived buy/sell equal the live
\* engine's RSI value and RSI-edge rule outcome after processing bars 0..i.
C26_RsiSameAsLive ==
  (backtest.status = 200 /\ backtest.strategy = "rsi") =>
    \A k \in DOMAIN backtest.walk :
      LET i == backtest.walk[k].i
          closes == EngineAfter(backtest.arr, i + 1).closes
      IN /\ RsiSame(RSI(backtest.arr, i, BT_RSI_PERIOD), _rsiFromCloses(closes, 14))
         /\ backtest.walk[k].signal = SideOf(RsiRule(closes))

\* ---------------- malformed and invalid input ----------------
NextInvalid ==
  \/ Connect("c1")
  \/ \E reason \in {"invalid_message", "unknown_type"} : BadMessage("c1", reason)
  \/ \E j \in SomeJitter : Subscribe("c1", "a#b", "1m", NoIndicator, j)
  \/ \E sym \in {"a#b", "ethusdt"}, candle \in {Candle(1, 100), BadCandle} :
       Ingest(sym, "1m", candle)
  \/ \E sym \in {"a#b", "ethusdt"}, j \in SomeJitter :
       History(sym, "1m", HistoryData(keyFor("ethusdt", "1m")), j)

SpecInvalid == Init /\ [][NextInvalid]_vars

\* the handler that ran was given malformed or invalid input
InvalidInput(l) ==
  \/ l.op \in {"invalid_message", "unknown_type", "ingest_400"}
  \/ l.op \in {"subscribe", "ingest", "history"} /\ ~ValidSymbol(ToUpperCase(l.key[1]))

\* C27: malformed or invalid input (a WS message of bad shape or unknown type,
\* an invalid candle on ingest, a symbol that fails the symbol pattern on
\* history, subscribe or ingest) changes no state: candle caches, indicator
\* state, subscriptions and the feeders registry stay as they were.
C27_InvalidInputNoMutation ==
  [][InvalidInput(last') =>
       UNCHANGED <<currentCandles, indicatorInstances, connections, feeders>>]_vars

\* ---------------- faults of the engine ----------------
NextFault ==
  \/ \E m \in MetaIds : SockOpen(m)
  \/ Connect("c1")
  \/ \E m \in MetaIds, kt \in FeedTimes : FeedMessage(m, kt, 100, TRUE)
  \/ \E m \in MetaIds, kt \in FeedTimes, p \in BOOLEAN : FeedFault(m, kt, 100, p)
  \/ \E t \in {19, 20} : Ingest("ethusdt", "1m", Candle(t, 100))
  \/ \E t \in {19, 20}, p \in BOOLEAN : IngestFault("ethusdt", "1m", Candle(t, 100), p)

SpecFault == Init /\ [][NextFault]_vars

Faulted(l) == l.op \in {"feed_fault", "ingest_fault"}

\* the open frontends were sent candles_update for the bar of the last handler
BarDelivered ==
  \A c \in Conns :
    (connections[c].inMap /\ connections[c].readyState = "OPEN") =>
      \E i \in DOMAIN sent[c] :
        /\ sent[c][i].type = "candles_update"
        /\ sent[c][i].key = last.key
        /\ sent[c][i].time = last.bar.time

\* C28: a fault raised by the engine while processing one bar is isolated to
\* that bar: the connector stays connected, the cache merge and candles_update
\* for the bar still take effect, and the next inbound bar is processed normally.
C28_FaultIsolated ==
  [][/\ Faulted(last') =>
          /\ feeders' = feeders
          /\ feederMetas' = feederMetas
          /\ currentCandles'[last'.key] # <<>>
          /\ currentCandles'[last'.key][Len(currentCandles'[last'.key])] = last'.bar
          /\ BarDelivered'
     /\ (Faulted(last) /\ last'.op \in {"feed_final", "ingest"}
           /\ indicatorInstances[last'.key].exists) =>
          /\ last'.out.ready
          /\ last'.out.time = last'.bar.time
          /\ indicatorInstances'[last'.key].closes
               = Append(indicatorInstances[last'.key].closes, last'.bar.close)]_vars

\* C28 witness: a final feed bar is processed by the engine, with a frontend
\* connected, after a bar on which the engine faulted before buffering it (the
\* cache holds a bar the engine does not)
C28_Witness ==
  /\ last.op = "feed_final"
  /\ last.out.ready
  /\ connections["c1"].inMap
  /\ \E i \in DOMAIN sent["c1"] : sent["c1"][i].type = "candles_update"
  /\ Len(currentCandles[last.key]) > Len(indicatorInstances[last.key].closes)

\* ---------------- shutdown of the connectors ----------------
NextShutdown ==
  \/ \E m \in MetaIds : SockOpen(m)
  \/ \E m \in MetaIds, j \in SomeJitter : SockError(m, j)
  \/ \E m \in MetaIds, j \in SomeJitter : SockClose(m, j)
  \/ \E m \in MetaIds, j \in SomeJitter : TimerFire(m, j)
  \/ Connect("c1")
  \/ \E j \in SomeJitter : Subscribe("c1", "btcusdt", "1m", NoIndicator, j)
  \/ Shutdown

SpecShutdown == Init /\ [][NextShutdown]_vars

\* C29: stopping the feed connectors cancels every pending reconnect timer and
\* releases every connection, so that right after it no reconnect timer is
\* pending and no upstream socket is connecting or open; the candle cache and
\* the indicator state are kept.
C29_ShutdownCancels ==
  [][last'.op = "shutdown" =>
       /\ \A m \in DOMAIN feederMetas' : ~feederMetas'[m].retryTimer
       /\ \A m \in DOMAIN feederMetas' :
            feederMetas'[m].ws => feederMetas'[m].readyState \notin {"CONNECTING", "OPEN"}
       /\ UNCHANGED <<currentCandles, indicatorInstances>>]_vars

\* the place of a message type in the order cache, indicator, signal
DeliveryRank(type) ==
  IF type = "candles_update" THEN 1
  ELSE IF type = "indicator_update" THEN 2
  ELSE IF type = "signal" THEN 3
  ELSE 0

\* C30: for each bar processed for a pair, from the live feed or from ingest,
\* every subscriber receives the resulting messages in the order
\* candles_update, then indicator_update, then signal, all within the handling
\* of that bar.
C30_DeliveryOrder ==
  last.op \in {"feed_open", "feed_final", "ingest"} =>
    \A c \in Conns :
      \A i, j \in DOMAIN sent[c] :
        (i < j /\ DeliveryRank(sent[c][i].type) > 0 /\ DeliveryRank(sent[c][j].type) > 0)
          => DeliveryRank(sent[c][i].type) < DeliveryRank(sent[c][j].type)

\* ---------------- a subscriber whose send throws ----------------
NextSendFault ==
  \/ \E c \in Conns : Connect(c)
  \/ \E c \in Conns : SendBreaks(c)
  \/ \E c \in Conns : Auth(c, "s1", TRUE)
  \/ \E c \in Conns, j \in SomeJitter : Subscribe(c, "ethusdt", "1m", ALGO_INDICATOR, j)
  \/ \E j \in SomeJitter : History("ethusdt", "1m", HistoryData(keyFor("ethusdt", "1m")), j)
  \/ Ingest("ethusdt", "1m", Candle(20, 100))

SpecSendFault == Init /\ [][NextSendFault]_vars

\* connection c is open and its send works
Reachable(c) ==
  connections[c].inMap /\ connections[c].readyState = "OPEN" /\ ~connections[c].sendThrows

HasMsg(c, type) == \E i \in DOMAIN sent[c] : sent[c][i].type = type /\ sent[c][i].key = last.key

\* C31: a send that throws for one subscriber does not block the delivery of
\* the same event to the others: every other subscriber entitled to it still
\* receives the cache, indicator and signal broadcast of the bar.
C31_SendFailureIsolated ==
  last.op = "ingest" =>
    \A c \in Conns :
      Reachable(c) =>
        /\ HasMsg(c, "candles_update")
        /\ last.out.signal # NoSignal => HasMsg(c, "signal")
        /\ ( /\ last.out.ready
             /\ createSubKey(last.key, ALGO_INDICATOR) \in connections[c].subscriptions
             /\ isPremium(World, connections[c].sessionId) )
           => HasMsg(c, "indicator_update")

\* C31 witness: a bar with a signal is delivered in full to one subscriber
\* while the send of the other, open and subscribed as well, throws
C31_Witness ==
  /\ last.op = "ingest"
  /\ \E c, d \in Conns :
       /\ connections[c].inMap /\ connections[c].readyState = "OPEN"
       /\ connections[c].sendThrows
       /\ createSubKey(last.key, ALGO_INDICATOR) \in connections[c].subscriptions
       /\ Reachable(d)
       /\ HasMsg(d, "candles_update") /\ HasMsg(d, "signal") /\ HasMsg(d, "indicator_update")

\* ---------------- the simple moving average ----------------
SmaLengths == 1..40

RECURSIVE SeqSum(_)
SeqSum(q) == IF q = <<>> THEN 0 ELSE Head(q) + SeqSum(Tail(q))

\* the last n entries of a sequence of at least n entries
LastN(q, n) == SubSeq(q, Len(q) - n + 1, Len(q))

\* C32: over the k buffered closes the simple moving average of length n is
\* the arithmetic mean of the last n closes when k >= n, and is null (not
\* zero, not an error) when k < n.
C32_SmaIsMeanOrNull ==
  last.op = "onBar" =>
    \A n \in SmaLengths :
      LET v == _smaFromCloses(EngineCloses, n)
      IN IF Len(EngineCloses) < n
           THEN v = Null
           ELSE /\ ~IsNull(v)
                /\ v.n * n = SeqSum(LastN(EngineCloses, n)) * v.d

\* C32 witness: after 29 closes of 100 and one of 110 the average of length 30
\* is 3010/30 and the average of length 31 is null
C32_Witness ==
  /\ last.op = "onBar"
  /\ Len(EngineCloses) = 30
  /\ EngineCloses[30] = 110 /\ EngineCloses[29] = 100
  /\ _smaFromCloses(EngineCloses, 30) = [n |-> 3010, d |-> 30]
  /\ IsNull(_smaFromCloses(EngineCloses, 31))

\* ---------------- the range of the RSI ----------------
\* losses || 1e-9 as whole + eps * 1e-9
EffectiveLosses(r) == [whole |-> r.losses, eps |-> IF r.losses = 0 THEN 1 ELSE 0]

\* 100 - 100/(1 + gains/L) = 100*gains/(gains + L) lies in [0, 100]
RsiInRange(r) ==
  LET L == EffectiveLosses(r)
  IN r.gains >= 0 /\ L.whole >= 0 /\ L.eps >= 0 /\ (r.gains > 0 \/ L.whole > 0 \/ L.eps > 0)

\* 100*gains/(gains + L) = v for an integer v in 0..100, i.e.
\* (100 - v)*gains = v*L, compared in the whole part and in the 1e-9 part.
\* (A double near 100 resolves 1.4e-14, and 100/(1 + gains/1e-9) is about
\* 1e-7/gains, so the result is not rounded to 100 for gains below 1.4e7.)
RsiEquals(r, v) ==
  LET L == EffectiveLosses(r)
  IN (100 - v) * r.gains = v * L.whole /\ v * L.eps = 0

\* every delta of the RSI window of the buffer is a gain
AllGains(closes) ==
  LET L == Len(closes)
  IN \A i \in (L - 14 + 2)..L : closes[i] > closes[i - 1]

\* C33: the RSI is bounded in [0, 100], and it equals 100 when all deltas in
\* the window are gains (the losses being forced to the epsilon floor).
C33_RsiBoundedAndSaturates ==
  (last.op = "onBar" /\ last.out.rsi.ok) =>
    /\ RsiInRange(last.out.rsi)
    /\ AllGains(EngineCloses) => RsiEquals(last.out.rsi, 100)

\* the part of C33 the engine does satisfy: the RSI stays within [0, 100]
C33_RsiBounded ==
  (last.op = "onBar" /\ last.out.rsi.ok) => RsiInRange(last.out.rsi)

\* ---------------- seeding the engine when a connector starts ----------------
NextSeed ==
  \/ \E m \in MetaIds : SockOpen(m)
  \/ \E m \in MetaIds, j \in SomeJitter : SockClose(m, j)
  \/ \E m \in MetaIds, j \in SomeJitter : TimerFire(m, j)
  \/ \E sym \in {"btcusdt", "ethusdt"}, j \in SomeJitter :
       History(sym, "1m", HistoryData(keyFor(ToUpperCase(sym), "1m")), j)

SpecSeed == Init /\ [][NextSeed]_vars

\* the step opened a socket for pair k: its connector entered Connecting
EntersConnecting(k) ==
  /\ feeders'[k] # feeders[k]
  /\ feeders'[k] # 0
  /\ feederMetas'[feeders'[k]].connecting

\* C34: each time a connector enters Connecting, on its first start and on
\* every reconnect, the engine of the pair has been seeded by replaying the
\* pair's current cache bar by bar; in particular after a history fetch
\* followed by the connector's start the engine reflects the fetched bars.
C34_SeededOnConnecting ==
  [][\A k \in Keys :
       EntersConnecting(k) =>
         indicatorInstances'[k] = SeedInstance(NewAruAlgo, currentCandles'[k], 1)]_vars

\* ---------------- the engine at the capacity of its buffer ----------------
\* The ETHUSDT engine one bar short of MAX_ALGO_CANDLES: seeded by GET /history
\* with MAX_SEED_CANDLES bars, the first at 110 and the others at 100, and fed
\* bars at 100 by POST /ingest since; the cache holds the last
\* MAX_CANDLES_CACHE of these bars.
NearFullEngine ==
  [exists |-> TRUE,
   times |-> [i \in 1..(MAX_ALGO_CANDLES - 1) |-> i],
   closes |-> [i \in 1..(MAX_ALGO_CANDLES - 1) |-> IF i = 1 THEN 110 ELSE 100],
   lastSignal |-> "null"]

EvictWorld ==
  [LoadedWorld(0)
     EXCEPT !.inst[EngineKey] = NearFullEngine,
            !.candles[EngineKey] =
              [i \in 1..MAX_CANDLES_CACHE |-> Bar(MAX_ALGO_CANDLES - 1 - MAX_CANDLES_CACHE + i, 100)]]

InitEvict == InitFrom(EvictWorld)

SpecEvict == InitEvict /\ [][NextEngine]_vars

\* C35: on every bar the prior SMA, EMA and RSI used for edge detection equal
\* the values the engine computed as current on the immediately preceding
\* bar, including on bars where the close buffer evicted its oldest entry.
C35_PriorIsPrecedingCurrent ==
  [][(last'.op = "onBar" /\ Len(EngineCloses') >= 31) =>
       /\ priorSma(EngineCloses', 10) = _smaFromCloses(EngineCloses, 10)
       /\ priorSma(EngineCloses', 30) = _smaFromCloses(EngineCloses, 30)
       /\ priorEma(EngineCloses', 10) = _emaFromCloses(EngineCloses, 10)
       /\ priorEma(EngineCloses', 30) = _emaFromCloses(EngineCloses, 30)
       /\ priorRsi(EngineCloses') = _rsiFromCloses(EngineCloses, 14)]_vars

\* the part of C35 that holds at the capacity as well: the prior SMA and RSI
C35_PriorSmaRsi ==
  [][(last'.op = "onBar" /\ Len(EngineCloses') >= 31) =>
       /\ priorSma(EngineCloses', 10) = _smaFromCloses(EngineCloses, 10)
       /\ priorSma(EngineCloses', 30) = _smaFromCloses(EngineCloses, 30)
       /\ priorRsi(EngineCloses') = _rsiFromCloses(EngineCloses, 14)]_vars

\* the bar made the buffer evict its oldest close
C35_Evicted ==
  /\ last.op = "onBar"
  /\ Len(EngineCloses) = MAX_ALGO_CANDLES
  /\ indicatorInstances[EngineKey].times[1] > 1

\* ---------------- revocation on premium_expired ----------------
\* C36: after a connection is sent premium_expired during an indicator
\* broadcast for a pair, it holds no subscription that still matches that
\* (pair, indicator), the wildcard (pair, no indicator) included, so that the
\* following indicator events send it neither data nor another
\* premium_expired until it subscribes again.
C36_RevokedWithWildcard ==
  \A c \in Conns :
    (last.out.ready /\ NumSent(sent[c], "error", "premium_expired") >= 1) =>
      /\ ExactSub(last.key) \notin connections[c].subscriptions
      /\ WildSub(last.key) \notin connections[c].subscriptions

\* ---------------- the accounting of a backtest ----------------
\* the sell trades of the run, and the sum of their pnl (in hundredths)
SellTrades == {i \in DOMAIN backtest.trades : backtest.trades[i].side = "sell"}

RECURSIVE SumPnl(_)
SumPnl(n) ==
  IF n = 0 THEN 0
  ELSE (IF backtest.trades[n].side = "sell" THEN backtest.trades[n].pnl ELSE 0) + SumPnl(n - 1)

Abs(x) == IF x < 0 THEN 0 - x ELSE x

\* C37: at the end of every run metrics.finalEquity equals the final cash,
\* which equals initial_capital plus the sum of pnl over all sell trades
\* (exit_on_finish included), to the rounding of the arithmetic: cost,
\* proceeds and pnl of a round trip are rounded separately, one hundredth per
\* sell at most; when no trade occurs finalEquity equals initial_capital.
C37_AccountingIdentity ==
  backtest.status = 200 =>
    /\ backtest.finalEquity = backtest.cash
    /\ Abs(backtest.cash
             - (BacktestCfg.initialCapital * CashScale + SumPnl(Len(backtest.trades))))
         <= Cardinality(SellTrades)
    /\ backtest.trades = <<>> => backtest.finalEquity = BacktestCfg.initialCapital * CashScale

\* C37 witness: a run with a round trip closed inside the walk and a second
\* one closed by exit_on_finish, ending with a cash other than the capital
C37_Witness ==
  /\ backtest.status = 200
  /\ Cardinality(SellTrades) >= 2
  /\ ExitTrades # {}
  /\ backtest.finalEquity = backtest.cash
  /\ backtest.cash # BacktestCfg.initialCapital * CashScale

\* ---------------- the limit of a backtest ----------------
\* requests that name a limit: fewer bars than the minimum, or exactly it
LimitBodies ==
  {[EmptyBody EXCEPT !.sma_short = 2, !.sma_long = 3, !.limit = l] : l \in {10, BT_MIN_BARS}}

InitLimit ==
  /\ InitWorld(LoadedWorld(0))
  /\ \E body \in LimitBodies, data \in BacktestData :
       backtest = [NoBacktest EXCEPT !.body = body, !.data = data]

SpecLimit == InitLimit /\ [][NextBacktest]_vars

\* C38: every backtest that returns results walked at least 30 bars, for
\* every limit the endpoint accepts (the bars are cut to the last `limit`
\* before the walk).
C38_WalksThirtyBars ==
  backtest.status = 200 => Len(backtest.arr) >= BT_MIN_BARS

\* ---------------- the size of a backtest's buy ----------------
\* requests that name a size: all of the cash, or twice the cash (size_pct 2)
SizeBodies ==
  {[EmptyBody EXCEPT !.sma_short = 2, !.sma_long = 3, !.size_e4 = n * E4] : n \in {1, 2}}

InitSize ==
  /\ InitWorld(LoadedWorld(0))
  /\ \E body \in SizeBodies, data \in BacktestData :
       backtest = [NoBacktest EXCEPT !.body = body, !.data = data]

SpecSize == InitSize /\ [][NextBacktest]_vars

\* the buy trades among the first n trades of the run
BuysUpTo(n) == {i \in 1..n : backtest.trades[i].side = "buy"}

\* C39: during a run the cash never becomes negative, for every config the
\* endpoint accepts: a buy never spends more than the available cash (to the
\* rounding of the quantity to thousandths, which at the prices drawn here
\* stays below one unit of currency per buy).
C39_CashNeverNegative ==
  backtest.status = 200 =>
    /\ backtest.cash >= 0 - CashScale * Cardinality(BuysUpTo(Len(backtest.trades)))
    /\ \A k \in DOMAIN backtest.walk :
         LET before == IF k = 1 THEN 0 ELSE backtest.walk[k - 1].trades
         IN backtest.walk[k].cash >= 0 - CashScale * Cardinality(BuysUpTo(before))

\* ---------------- paper positions under interleaved closes ----------------
\* a slot for the invocation that is about to start
FreeTask == CHOOSE t \in TaskIds : paper.tasks[t].kind = "none"
             /\ \A u \in 1..(t - 1) : paper.tasks[u].kind # "none"

HasFreeTask == \E t \in TaskIds : paper.tasks[t].kind = "none"

PlaceOrder(pos, hits) ==
  /\ pos \notin paper.placed
  /\ HasFreeTask
  /\ paper' = placeOrder(paper, FreeTask, pos, hits)
  /\ UNCHANGED serverVars

\* a candles_update message reaches the page
CandleUpdate(hits) ==
  /\ HasFreeTask
  /\ paper' = evaluatePaperPositionsOnCandle(paper, FreeTask, hits)
  /\ UNCHANGED serverVars

\* the click on a position's Close button
ManualClose(pos) ==
  /\ HasFreeTask
  /\ paper' = closePosition(paper, FreeTask, pos)
  /\ UNCHANGED serverVars

\* the persistTrade a suspended invocation awaits has answered
PersistDone(tid) ==
  /\ paper.tasks[tid].kind # "none"
  /\ paper' = IF paper.tasks[tid].kind = "eval" THEN resumeEvaluate(paper, tid)
              ELSE resumeClose(paper, tid)
  /\ UNCHANGED serverVars

NextPaper ==
  \/ \E pos \in PositionIds, hits \in SUBSET PositionIds : PlaceOrder(pos, hits)
  \/ \E hits \in SUBSET PositionIds : CandleUpdate(hits)
  \/ \E pos \in PositionIds : ManualClose(pos)
  \/ \E tid \in TaskIds : PersistDone(tid)

SpecPaper == Init /\ [][NextPaper]_vars

OpenIds == {paper.openPositions[i] : i \in DOMAIN paper.openPositions}

\* C40: under any interleaving of candle evaluations and manual closes, each
\* of which awaits persistTrade before it removes the position, every open
\* paper position is closed at most once: its margin and PnL are credited
\* once, one closed trade is recorded, and only that position is removed from
\* openPositions.
C40_ClosedAtMostOnce ==
  \A p \in PositionIds :
    /\ paper.credited[p] <= 1
    /\ paper.closedTrades[p] <= 1
    /\ (p \in paper.placed /\ paper.credited[p] = 0) => p \in OpenIds

====
